---- MODULE Spec2Model ----
(***************************************************************************)
(* A model of the Dropbox backend of rclone (dropbox/dropbox.go) and of    *)
(* the listing sink of package fs (fs/fs.go): listOpts and its channels,   *)
(* the delta listing of Fs.list, and the object operations of Fs/Object.   *)
(*                                                                         *)
(* Strings are sequences of one-character strings, so that ToLower,        *)
(* HasPrefix, slicing and the ignored-files regexp are computed character  *)
(* by character as the Go code computes them.                              *)
(***************************************************************************)
EXTENDS Integers, Sequences, FiniteSets, TLC

(***************************************************************************)
(* Bounds of the model.                                                    *)
(***************************************************************************)
\* capacity of the objects and dirs channels: newListOpts(buffer)
Buffer == 1
\* calls made on one listOpts, over all goroutines
MaxCalls == 4
\* calls the producers make on one listOpts whose consumers call Get until
\* they are done
MaxLiveCalls == 3
\* delta pages the backend returns in one listing
MaxPages == 2
\* entries the backend reports in one listing, over all its delta pages
MaxEntries == 3
\* capacity of the output channels of Fs.List and Fs.ListDir:
\* fs.Config.Checkers
Checkers == 1
\* entries in the Contents a Metadata call of the root answers with
MaxContents == 2
\* operations issued on the Fs / Object in one run
MaxOps == 3

(***************************************************************************)
(* Strings.                                                                *)
(***************************************************************************)
\* strings.ToLower on one character, over the alphabet of the model
LowerChar(c) ==
  CASE c = "A" -> "a"
    [] c = "B" -> "b"
    [] c = "D" -> "d"
    [] c = "F" -> "f"
    [] c = "I" -> "i"
    [] c = "R" -> "r"
    [] c = "S" -> "s"
    [] c = "T" -> "t"
    [] OTHER -> c

\* strings.ToLower
ToLower(s) == [i \in 1..Len(s) |-> LowerChar(s[i])]

\* strings.HasPrefix
HasPrefix(s, prefix) ==
  /\ Len(prefix) <= Len(s)
  /\ \A i \in 1..Len(prefix) : s[i] = prefix[i]

\* s[n:] of Go (n is a 0-based byte offset)
SliceFrom(s, n) == SubSeq(s, n + 1, Len(s))

\* strings.LastIndex(s, "/"): 0-based index of the last slash, -1 if none
LastSlashIndex(s) ==
  LET idx == {i \in 1..Len(s) : s[i] = "/"}
  IN  IF idx = {} THEN -1 ELSE (CHOOSE i \in idx : \A j \in idx : j <= i) - 1

\* strings.Trim(s, "/")
RECURSIVE TrimSlashes(_)
TrimSlashes(s) ==
  IF s = <<>> THEN <<>>
  ELSE IF Head(s) = "/" THEN TrimSlashes(Tail(s))
  ELSE IF s[Len(s)] = "/" THEN TrimSlashes(SubSeq(s, 1, Len(s) - 1))
  ELSE s

\* strings.Split(s, "/"): the components between slashes (<<"">> style: an
\* empty string yields one empty component)
RECURSIVE SplitSlash(_)
SplitSlash(s) ==
  LET idx == {i \in 1..Len(s) : s[i] = "/"}
  IN  IF idx = {} THEN <<s>>
      ELSE LET i == CHOOSE k \in idx : \A j \in idx : k <= j
           IN  <<SubSeq(s, 1, i - 1)>> \o SplitSlash(SubSeq(s, i + 1, Len(s)))


(***************************************************************************)
(* State.                                                                  *)
(***************************************************************************)
VARIABLES
  \* ---- fs.listOpts (fs/fs.go) ----
  objects,          \* items buffered in the objects channel
  dirs,             \* items buffered in the dirs channel
  objectsClosed,    \* close(o.objects) has run
  dirsClosed,       \* close(o.dirs) has run
  abort,            \* the abort channel is closed
  finished,         \* the sync.Once of Finished: "no", "running", "done"
  pc,               \* where each goroutine is inside its listOpts call
  arg,              \* the argument (or received error) of the call in progress
  ret,              \* what the call that returned last returned, and to whom
  late,             \* the call in progress started after a SetError returned
  calls,            \* calls made on the listOpts so far
  panicked,         \* the program has panicked
  closeAbortCount,  \* executions of close(o.abort)
  errsReturned,     \* errors passed to SetError that a Get has returned
  setErrReturned,   \* a SetError call with a non-nil error has returned
  errsSet,          \* the non-nil errors SetError has been called with
  getDone,          \* consumers that have received an error or (nil, nil, nil)
  \* ---- dropbox.Fs and fs.Stats ----
  root,             \* f.root
  slashRoot,        \* f.slashRoot
  slashRootSlash,   \* f.slashRootSlash
  statsErrors,      \* fs.Stats: the error counter
  \* ---- Fs.List / Fs.list (dropbox/dropbox.go) ----
  lpc,              \* where the listing goroutine is
  cursor,           \* the delta cursor
  page,             \* deltaPage, err: the last answer of f.db.Delta
  nameTree,         \* the name tree: directories and deferred files
  walkTodo,         \* what WalkFiles has still to visit
  sending,          \* the object the goroutine is sending to out
  out,              \* objects buffered in the output channel
  outClosed,        \* close(out) has run
  consumerStopped,  \* the consumer has stopped receiving from out
  deltaCalls,       \* calls of f.db.Delta so far
  processed,        \* entries of delta pages processed so far
  emitted,          \* every object sent to out, in order, with its entry
  stripFails,       \* stripRoot calls that found a path not under the root
  \* ---- Fs.ListDir ----
  ldpc,             \* where the goroutine started by Fs.ListDir is
  ldContents,       \* entry.Contents still to be looked at
  dirOut,           \* the fs.DirChan made by ListDir: the Dirs buffered
  dirOutClosed,     \* the DirChan has been closed
  \* ---- the Dropbox store and the calls on Fs and Object ----
  db,               \* the entries the store holds, by lowercased path
  held,             \* the Object the caller holds, or NilObject
  ops,              \* operations issued so far
  uploadCalls,      \* calls of f.db.UploadByChunk so far
  lastOp,           \* the last operation: its arguments and its results
  nfoResults,       \* the results of NewFsObject, by the answer of Metadata
  storable,         \* what the last call of Object.Storable returned
  \* ---- the Dropbox tree and the calls on the directory of an Fs ----
  dropbox,          \* the entries Dropbox holds, by lowercased path
  dirOps,           \* calls on the Fs issued so far
  lastDir,          \* the last call: its result and the backend calls it made
  limited,          \* the fs.Limited the last NewFs returned, if it did
  \* ---- fs.NewFs: the config file and the registry (fs/fs.go) ----
  windows,          \* the build is the one for Windows
  configFile,       \* ConfigFile: the "type" value of each section that has one
  fsRegistry,       \* the names of the registered backends, in order
  newFsCalls,       \* calls of fs.NewFs so far
  lastNewFs         \* the last call of fs.NewFs: its path and what it did

lovars == <<objects, dirs, objectsClosed, dirsClosed, abort, finished, pc, arg,
            ret, late, calls, panicked, closeAbortCount, errsReturned,
            setErrReturned, errsSet, getDone>>

fsvars == <<root, slashRoot, slashRootSlash, statsErrors>>

listvars == <<lpc, cursor, page, nameTree, walkTodo, sending, out, outClosed,
              consumerStopped, deltaCalls, processed, emitted,
              stripFails>>

ldvars == <<ldpc, ldContents, dirOut, dirOutClosed>>

objvars == <<db, held, ops, uploadCalls, lastOp, nfoResults, storable>>

dirvars == <<dropbox, dirOps, lastDir, limited>>

cfgvars == <<windows, configFile, fsRegistry, newFsCalls, lastNewFs>>

vars == <<lovars, fsvars, listvars, ldvars, objvars, dirvars, cfgvars>>

(***************************************************************************)
(* fs.listOpts: the goroutines and their inputs.                           *)
(***************************************************************************)
\* goroutines that fill the listing (Add, AddDir, SetError, Finished)
Producers == {"p1", "p2"}
\* goroutines that drain it (Get)
Consumers == {"g1", "g2"}
Procs == Producers \cup Consumers

Objs == {"o1"}
DirItems == {"d1"}
\* the errors passed to SetError; "nil" is the nil error
Errs == {"e1", "e2"}
ErrArgs == Errs \cup {"nil"}

\* the value a call returned: op is the method, kind the shape of the result,
\* v the value carried, pend the items left in the channels when Get returned
Ret(op, kind, v, pend, wasLate) ==
  [op |-> op, kind |-> kind, v |-> v, pend |-> pend, late |-> wasLate]

\* the same, with the goroutine it was returned to
RetTo(p, r) ==
  [proc |-> p, op |-> r.op, kind |-> r.kind, v |-> r.v, pend |-> r.pend,
   late |-> r.late]

NoRet == RetTo("none", Ret("none", "none", "none", 0, FALSE))

\* the listOpts with the given objects buffered and no call in progress
LOStart(buffered) ==
  /\ objects = buffered
  /\ dirs = <<>>
  /\ objectsClosed = FALSE
  /\ dirsClosed = FALSE
  /\ abort = FALSE
  /\ finished = "no"
  /\ pc = [p \in Procs |-> "idle"]
  /\ arg = [p \in Procs |-> "none"]
  /\ ret = NoRet
  /\ late = [p \in Procs |-> FALSE]
  /\ calls = 0
  /\ panicked = FALSE
  /\ closeAbortCount = 0
  /\ errsReturned = {}
  /\ setErrReturned = FALSE
  /\ errsSet = {}
  /\ getDone = {}

\* newListOpts(buffer)
LOInit == LOStart(<<>>)

\* a goroutine enters a method of the listOpts
Enter(p, where, a) ==
  /\ ~panicked
  /\ pc[p] = "idle"
  /\ calls < MaxCalls
  /\ pc' = [pc EXCEPT ![p] = where]
  /\ arg' = [arg EXCEPT ![p] = a]
  /\ late' = [late EXCEPT ![p] = setErrReturned]
  /\ calls' = calls + 1

\* a goroutine returns from its call
Return(p, r) ==
  /\ pc' = [pc EXCEPT ![p] = "idle"]
  /\ ret' = RetTo(p, r)
  /\ arg' = [arg EXCEPT ![p] = "none"]
  /\ late' = [late EXCEPT ![p] = FALSE]


(***************************************************************************)
(* listOpts.Add and listOpts.AddDir: select { <-o.abort ; o.objects <- obj }*)
(***************************************************************************)
AddCall(p, obj) ==
  /\ Enter(p, "Add", obj)
  /\ UNCHANGED <<objects, dirs, objectsClosed, dirsClosed, abort, finished, ret,
                 panicked, closeAbortCount, errsReturned, setErrReturned, errsSet>>

\* case <-o.abort: return true
AddAbort(p) ==
  /\ ~panicked
  /\ pc[p] \in {"Add", "AddWoken"}
  /\ abort
  /\ Return(p, Ret("Add", "true", arg[p], 0, late[p]))
  /\ UNCHANGED <<objects, dirs, objectsClosed, dirsClosed, abort, finished, calls, panicked, closeAbortCount, errsReturned,
                 setErrReturned, errsSet>>

\* Add with a send that never waits for room in the channel
AddSend_NoLimit(p) ==
  /\ ~panicked
  /\ pc[p] \in {"Add", "AddParked"}
  /\ ~objectsClosed
  /\ objects' = Append(objects, arg[p])
  /\ Return(p, Ret("Add", "false", arg[p], 0, late[p]))
  /\ UNCHANGED <<dirs, objectsClosed, dirsClosed, abort, finished, calls, panicked, closeAbortCount, errsReturned, setErrReturned,
                 errsSet>>

\* case o.objects <- obj: return false
AddSend(p) ==
  /\ ~panicked
  /\ pc[p] \in {"Add", "AddParked"}
  /\ ~objectsClosed
  /\ Len(objects) < Buffer
  /\ objects' = Append(objects, arg[p])
  /\ Return(p, Ret("Add", "false", arg[p], 0, late[p]))
  /\ UNCHANGED <<dirs, objectsClosed, dirsClosed, abort, finished, calls, panicked, closeAbortCount, errsReturned, setErrReturned,
                 errsSet>>

\* case o.objects <- obj on a closed channel: the send panics
AddSendClosed(p) ==
  /\ ~panicked
  /\ pc[p] \in {"Add", "AddParked"}
  /\ objectsClosed
  /\ panicked' = TRUE
  /\ UNCHANGED <<objects, dirs, objectsClosed, dirsClosed, abort, finished, pc,
                 arg, ret, late, calls, closeAbortCount, errsReturned,
                 setErrReturned, errsSet>>

\* no case of the select can proceed: the goroutine is suspended in it, and
\* the receive that makes room completes its send (the AddSend step)
AddPark(p) ==
  /\ ~panicked
  /\ pc[p] = "Add"
  /\ ~abort
  /\ ~objectsClosed
  /\ Len(objects) = Buffer
  /\ pc' = [pc EXCEPT ![p] = "AddParked"]
  /\ UNCHANGED <<objects, dirs, objectsClosed, dirsClosed, abort, finished, arg,
                 ret, late, calls, panicked, closeAbortCount, errsReturned,
                 setErrReturned, errsSet>>

AddDirCall(p, dir) ==
  /\ Enter(p, "AddDir", dir)
  /\ UNCHANGED <<objects, dirs, objectsClosed, dirsClosed, abort, finished, ret,
                 panicked, closeAbortCount, errsReturned, setErrReturned, errsSet>>

\* case <-o.abort: return true
AddDirAbort(p) ==
  /\ ~panicked
  /\ pc[p] \in {"AddDir", "AddDirWoken"}
  /\ abort
  /\ Return(p, Ret("AddDir", "true", arg[p], 0, late[p]))
  /\ UNCHANGED <<objects, dirs, objectsClosed, dirsClosed, abort, finished, calls, panicked, closeAbortCount, errsReturned,
                 setErrReturned, errsSet>>

\* AddDir with the directory sent on the objects channel
AddDirSend_ToObjects(p) ==
  /\ ~panicked
  /\ pc[p] \in {"AddDir", "AddDirParked"}
  /\ ~objectsClosed
  /\ Len(objects) < Buffer
  /\ objects' = Append(objects, arg[p])
  /\ Return(p, Ret("AddDir", "false", arg[p], 0, late[p]))
  /\ UNCHANGED <<dirs, objectsClosed, dirsClosed, abort, finished, calls, panicked, closeAbortCount, errsReturned, setErrReturned,
                 errsSet>>

\* case o.dirs <- dir: return false
AddDirSend(p) ==
  /\ ~panicked
  /\ pc[p] \in {"AddDir", "AddDirParked"}
  /\ ~dirsClosed
  /\ Len(dirs) < Buffer
  /\ dirs' = Append(dirs, arg[p])
  /\ Return(p, Ret("AddDir", "false", arg[p], 0, late[p]))
  /\ UNCHANGED <<objects, objectsClosed, dirsClosed, abort, finished, calls, panicked, closeAbortCount, errsReturned, setErrReturned,
                 errsSet>>

\* case o.dirs <- dir on a closed channel: the send panics
AddDirSendClosed(p) ==
  /\ ~panicked
  /\ pc[p] \in {"AddDir", "AddDirParked"}
  /\ dirsClosed
  /\ panicked' = TRUE
  /\ UNCHANGED <<objects, dirs, objectsClosed, dirsClosed, abort, finished, pc,
                 arg, ret, late, calls, closeAbortCount, errsReturned,
                 setErrReturned, errsSet>>

\* no case of the select can proceed: the goroutine is suspended in it
AddDirPark(p) ==
  /\ ~panicked
  /\ pc[p] = "AddDir"
  /\ ~abort
  /\ ~dirsClosed
  /\ Len(dirs) = Buffer
  /\ pc' = [pc EXCEPT ![p] = "AddDirParked"]
  /\ UNCHANGED <<objects, dirs, objectsClosed, dirsClosed, abort, finished, arg,
                 ret, late, calls, panicked, closeAbortCount, errsReturned,
                 setErrReturned, errsSet>>

(***************************************************************************)
(* listOpts.SetError: nil is ignored; otherwise                            *)
(* select { <-o.abort ; o.errors <- err } on the unbuffered errors channel.*)
(***************************************************************************)
\* if err == nil { return }
SetErrorNil(p) ==
  /\ ~panicked
  /\ pc[p] = "idle"
  /\ calls < MaxCalls
  /\ calls' = calls + 1
  /\ ret' = RetTo(p, Ret("SetError", "none", "nil", 0, setErrReturned))
  /\ UNCHANGED <<objects, dirs, objectsClosed, dirsClosed, abort, finished, pc,
                 arg, late, panicked, closeAbortCount, errsReturned,
                 setErrReturned, errsSet>>

SetErrorCall(p, err) ==
  /\ Enter(p, "SetError", err)
  /\ errsSet' = errsSet \cup {err}
  /\ UNCHANGED <<objects, dirs, objectsClosed, dirsClosed, abort, finished, ret,
                 panicked, closeAbortCount, errsReturned, setErrReturned>>

\* case <-o.abort:
SetErrorAbort(p) ==
  /\ ~panicked
  /\ pc[p] = "SetError"
  /\ abort
  /\ Return(p, Ret("SetError", "none", arg[p], 0, late[p]))
  /\ setErrReturned' = TRUE
  /\ UNCHANGED <<objects, dirs, objectsClosed, dirsClosed, abort, finished, calls, panicked, closeAbortCount, errsReturned, errsSet>>

(***************************************************************************)
(* listOpts.Finished: o.finished.Do(close(o.objects); close(o.dirs))       *)
(***************************************************************************)
FinishedCall(p) ==
  /\ Enter(p, "Finished", "none")
  /\ UNCHANGED <<objects, dirs, objectsClosed, dirsClosed, abort, finished, ret,
                 panicked, closeAbortCount, errsReturned, setErrReturned, errsSet>>

\* the first caller runs the function of the Once: close(o.objects)
FinishedCloseObjects(p) ==
  /\ ~panicked
  /\ pc[p] = "Finished"
  /\ finished = "no"
  /\ finished' = "running"
  /\ objectsClosed' = TRUE
  /\ pc' = [pc EXCEPT ![p] = "FinishedDirs"]
  /\ UNCHANGED <<objects, dirs, dirsClosed, abort, arg, ret, late, calls,
                 panicked, closeAbortCount, errsReturned, setErrReturned, errsSet>>

\* close(o.dirs), and the Once is done
FinishedCloseDirs(p) ==
  /\ ~panicked
  /\ pc[p] = "FinishedDirs"
  /\ dirsClosed' = TRUE
  /\ finished' = "done"
  /\ Return(p, Ret("Finished", "none", "none", 0, late[p]))
  /\ UNCHANGED <<objects, dirs, objectsClosed, abort, calls, panicked,
                 closeAbortCount, errsReturned, setErrReturned, errsSet>>

\* a later caller returns once the Once is done (it waits while it runs)
FinishedAlready(p) ==
  /\ ~panicked
  /\ pc[p] = "Finished"
  /\ finished = "done"
  /\ Return(p, Ret("Finished", "none", "none", 0, late[p]))
  /\ UNCHANGED <<objects, dirs, objectsClosed, dirsClosed, abort, finished, calls, panicked, closeAbortCount, errsReturned,
                 setErrReturned, errsSet>>


(***************************************************************************)
(* listOpts.Get.                                                           *)
(***************************************************************************)
GetCall(c) ==
  /\ Enter(c, "Get1", "none")
  /\ UNCHANGED <<objects, dirs, objectsClosed, dirsClosed, abort, finished, ret,
                 panicked, closeAbortCount, errsReturned, setErrReturned, errsSet>>

\* err := <-o.errors: the receive pairs with the send of a SetError call
\* waiting in its select, which then returns.  Once the abort channel is
\* closed the two never pair: whichever of them reaches its select first
\* finds <-o.abort ready and nobody waiting on o.errors, and one suspended
\* earlier was woken by the close with its <-o.abort case.
RecvError(c, p) ==
  /\ pc[p] = "SetError"
  /\ ~abort
  /\ pc' = [pc EXCEPT ![c] = "GetClose", ![p] = "idle"]
  /\ arg' = [arg EXCEPT ![c] = arg[p], ![p] = "none"]
  /\ late' = [late EXCEPT ![p] = FALSE]
  /\ ret' = RetTo(p, Ret("SetError", "none", arg[p], 0, late[p]))
  /\ setErrReturned' = TRUE

\* first select, case <-o.abort: return nil, nil, ErrListAborted
Get1Abort(c) ==
  /\ ~panicked
  /\ pc[c] = "Get1"
  /\ abort
  /\ Return(c, Ret("Get", "aborted", "ErrListAborted",
                   Len(objects) + Len(dirs), late[c]))
  /\ UNCHANGED <<objects, dirs, objectsClosed, dirsClosed, abort, finished, calls, panicked, closeAbortCount, errsReturned,
                 setErrReturned, errsSet>>

\* first select, case err := <-o.errors
Get1Error(c, p) ==
  /\ ~panicked
  /\ pc[c] = "Get1"
  /\ RecvError(c, p)
  /\ UNCHANGED <<objects, dirs, objectsClosed, dirsClosed, abort, finished,
                 calls, panicked, closeAbortCount, errsReturned, errsSet>>

\* the first select of Get with a default that is taken whatever is ready
Get1Default_Always(c) ==
  /\ ~panicked
  /\ pc[c] = "Get1"
  /\ pc' = [pc EXCEPT ![c] = "Get2"]
  /\ UNCHANGED <<objects, dirs, objectsClosed, dirsClosed, abort, finished, arg,
                 ret, late, calls, panicked, closeAbortCount, errsReturned,
                 setErrReturned, errsSet>>

\* first select, default: taken only when no other case is ready
Get1Default(c) ==
  /\ ~panicked
  /\ pc[c] = "Get1"
  /\ ~abort
  /\ \A p \in Producers : pc[p] # "SetError"
  /\ pc' = [pc EXCEPT ![c] = "Get2"]
  /\ UNCHANGED <<objects, dirs, objectsClosed, dirsClosed, abort, finished, arg,
                 ret, late, calls, panicked, closeAbortCount, errsReturned,
                 setErrReturned, errsSet>>

\* second select, case obj := <-o.objects with an item buffered
Get2Object(c) ==
  /\ ~panicked
  /\ pc[c] = "Get2"
  /\ objects # <<>>
  /\ objects' = Tail(objects)
  /\ Return(c, Ret("Get", "obj", Head(objects),
                   Len(objects) - 1 + Len(dirs), late[c]))
  /\ UNCHANGED <<dirs, objectsClosed, dirsClosed, abort, finished, calls, panicked, closeAbortCount, errsReturned, setErrReturned,
                 errsSet>>

\* second select, case obj := <-o.objects on the closed, drained channel:
\* obj is nil and Get returns (nil, nil, nil)
Get2ObjectsClosed(c) ==
  /\ ~panicked
  /\ pc[c] = "Get2"
  /\ objects = <<>>
  /\ objectsClosed
  /\ Return(c, Ret("Get", "nil", IF errsSet # {} THEN "errsSet" ELSE "clean",
                   Len(objects) + Len(dirs), late[c]))
  /\ UNCHANGED <<objects, dirs, objectsClosed, dirsClosed, abort, finished, calls, panicked, closeAbortCount, errsReturned,
                 setErrReturned, errsSet>>

\* second select, case dir := <-o.dirs with an item buffered
Get2Dir(c) ==
  /\ ~panicked
  /\ pc[c] = "Get2"
  /\ dirs # <<>>
  /\ dirs' = Tail(dirs)
  /\ Return(c, Ret("Get", "dir", Head(dirs),
                   Len(objects) + Len(dirs) - 1, late[c]))
  /\ UNCHANGED <<objects, objectsClosed, dirsClosed, abort, finished, calls, panicked, closeAbortCount, errsReturned, setErrReturned,
                 errsSet>>

\* second select, case dir := <-o.dirs on the closed, drained channel:
\* dir is nil and Get returns (nil, nil, nil)
Get2DirsClosed(c) ==
  /\ ~panicked
  /\ pc[c] = "Get2"
  /\ dirs = <<>>
  /\ dirsClosed
  /\ Return(c, Ret("Get", "nil", IF errsSet # {} THEN "errsSet" ELSE "clean",
                   Len(objects) + Len(dirs), late[c]))
  /\ UNCHANGED <<objects, dirs, objectsClosed, dirsClosed, abort, finished, calls, panicked, closeAbortCount, errsReturned,
                 setErrReturned, errsSet>>

\* second select, case err := <-o.errors
Get2Error(c, p) ==
  /\ ~panicked
  /\ pc[c] = "Get2"
  /\ RecvError(c, p)
  /\ UNCHANGED <<objects, dirs, objectsClosed, dirsClosed, abort, finished,
                 calls, panicked, closeAbortCount, errsReturned, errsSet>>

\* second select, case <-o.abort: return nil, nil, ErrListAborted
Get2Abort(c) ==
  /\ ~panicked
  /\ pc[c] = "Get2"
  /\ abort
  /\ Return(c, Ret("Get", "aborted", "ErrListAborted",
                   Len(objects) + Len(dirs), late[c]))
  /\ UNCHANGED <<objects, dirs, objectsClosed, dirsClosed, abort, finished, calls, panicked, closeAbortCount, errsReturned,
                 setErrReturned, errsSet>>

\* GetCloseAbort without its close(o.abort): the error is returned and the
\* abort channel stays open
GetCloseAbort_NoClose(c) ==
  /\ ~panicked
  /\ pc[c] = "GetClose"
  /\ Return(c, Ret("Get", "err", arg[c], Len(objects) + Len(dirs), late[c]))
  /\ errsReturned' = errsReturned \cup {arg[c]}
  /\ UNCHANGED <<objects, dirs, objectsClosed, dirsClosed, abort, finished,
                 calls, panicked, closeAbortCount, setErrReturned, errsSet>>

\* GetCloseAbort with a close that is skipped when the channel is already
\* closed, so that the second receiver returns its error too
GetCloseAbort_Guarded(c) ==
  /\ ~panicked
  /\ pc[c] = "GetClose"
  /\ abort' = TRUE
  /\ closeAbortCount' = IF abort THEN closeAbortCount ELSE closeAbortCount + 1
  /\ Return(c, Ret("Get", "err", arg[c], Len(objects) + Len(dirs), late[c]))
  /\ errsReturned' = errsReturned \cup {arg[c]}
  /\ UNCHANGED <<objects, dirs, objectsClosed, dirsClosed, finished, calls,
                 panicked, setErrReturned, errsSet>>

\* the close of the abort channel wakes every goroutine suspended in a
\* select on it, each with its <-o.abort case chosen
Woken(where) ==
  CASE where = "AddParked" -> "AddWoken"
    [] where = "AddDirParked" -> "AddDirWoken"
    [] OTHER -> where

\* close(o.abort); return nil, nil, err.  Closing a closed channel panics.
GetCloseAbort(c) ==
  /\ ~panicked
  /\ pc[c] = "GetClose"
  /\ closeAbortCount' = closeAbortCount + 1
  /\ IF abort
       THEN /\ panicked' = TRUE
            /\ UNCHANGED <<abort, pc, ret, arg, late, errsReturned>>
       ELSE /\ abort' = TRUE
            /\ pc' = [q \in Procs |-> IF q = c THEN "idle" ELSE Woken(pc[q])]
            /\ ret' = RetTo(c, Ret("Get", "err", arg[c],
                                   Len(objects) + Len(dirs), late[c]))
            /\ arg' = [arg EXCEPT ![c] = "none"]
            /\ late' = [late EXCEPT ![c] = FALSE]
            /\ errsReturned' = errsReturned \cup {arg[c]}
            /\ UNCHANGED panicked
  /\ UNCHANGED <<objects, dirs, objectsClosed, dirsClosed, finished, calls,
                 setErrReturned, errsSet>>

(***************************************************************************)
(* The listing sink used by concurrent producers and consumers.            *)
(***************************************************************************)
LONext ==
  \/ \E p \in Producers, obj \in Objs : AddCall(p, obj)
  \/ \E p \in Producers : AddAbort(p)
  \/ \E p \in Producers : AddSend(p)
  \/ \E p \in Producers : AddSendClosed(p)
  \/ \E p \in Producers : AddPark(p)
  \/ \E p \in Producers, dir \in DirItems : AddDirCall(p, dir)
  \/ \E p \in Producers : AddDirAbort(p)
  \/ \E p \in Producers : AddDirSend(p)
  \/ \E p \in Producers : AddDirSendClosed(p)
  \/ \E p \in Producers : AddDirPark(p)
  \/ \E p \in Producers : SetErrorNil(p)
  \/ \E p \in Producers, err \in Errs : SetErrorCall(p, err)
  \/ \E p \in Producers : SetErrorAbort(p)
  \/ \E p \in Producers : FinishedCall(p)
  \/ \E p \in Producers : FinishedCloseObjects(p)
  \/ \E p \in Producers : FinishedCloseDirs(p)
  \/ \E p \in Producers : FinishedAlready(p)
  \/ \E c \in Consumers : GetCall(c)
  \/ \E c \in Consumers : Get1Abort(c)
  \/ \E c \in Consumers, p \in Producers : Get1Error(c, p)
  \/ \E c \in Consumers : Get1Default(c)
  \/ \E c \in Consumers : Get2Object(c)
  \/ \E c \in Consumers : Get2ObjectsClosed(c)
  \/ \E c \in Consumers : Get2Dir(c)
  \/ \E c \in Consumers : Get2DirsClosed(c)
  \/ \E c \in Consumers, p \in Producers : Get2Error(c, p)
  \/ \E c \in Consumers : Get2Abort(c)
  \/ \E c \in Consumers : GetCloseAbort(c)


(***************************************************************************)
(* The listing sink with a consumer that calls Get until it has received   *)
(* an error or (nil, nil, nil), and goroutines that run whenever they can. *)
(***************************************************************************)
\* the calls of a producer
ProducerCall(p) ==
  \/ \E obj \in Objs : AddCall(p, obj)
  \/ \E dir \in DirItems : AddDirCall(p, dir)
  \/ SetErrorNil(p)
  \/ \E err \in Errs : SetErrorCall(p, err)
  \/ FinishedCall(p)

\* the steps of a producer inside its call
ProducerStep(p) ==
  \/ AddAbort(p) \/ AddSend(p) \/ AddSendClosed(p) \/ AddPark(p)
  \/ AddDirAbort(p) \/ AddDirSend(p) \/ AddDirSendClosed(p) \/ AddDirPark(p)
  \/ SetErrorAbort(p)
  \/ FinishedCloseObjects(p) \/ FinishedCloseDirs(p) \/ FinishedAlready(p)

\* the steps of a consumer inside its Get
ConsumerStep(c) ==
  \/ Get1Abort(c) \/ Get1Default(c)
  \/ \E p \in Producers : Get1Error(c, p)
  \/ Get2Object(c) \/ Get2ObjectsClosed(c) \/ Get2Dir(c) \/ Get2DirsClosed(c)
  \/ \E p \in Producers : Get2Error(c, p)
  \/ Get2Abort(c)
  \/ GetCloseAbort(c)

\* the consumer calls Get again, unless it has received an error or
\* (nil, nil, nil)
GetAgain(c) ==
  /\ ~panicked
  /\ pc[c] = "idle"
  /\ c \notin getDone
  /\ pc' = [pc EXCEPT ![c] = "Get1"]
  /\ late' = [late EXCEPT ![c] = setErrReturned]
  /\ UNCHANGED <<objects, dirs, objectsClosed, dirsClosed, abort, finished, arg,
                 ret, calls, panicked, closeAbortCount, errsReturned,
                 setErrReturned, errsSet>>

\* a Get that returns an error or (nil, nil, nil) is the last of its consumer
GetEnds ==
  getDone' = getDone \cup
    {c \in Consumers : /\ pc[c] # "idle"
                       /\ pc'[c] = "idle"
                       /\ ret'.kind \in {"err", "aborted", "nil"}}

Live(A) ==
  A /\ GetEnds /\ UNCHANGED <<fsvars, listvars, ldvars, objvars, dirvars, cfgvars>>

LiveNext ==
  \/ \E p \in Producers : Live(calls < MaxLiveCalls /\ ProducerCall(p))
  \/ \E p \in Producers : Live(ProducerStep(p))
  \/ \E c \in Consumers : Live(GetAgain(c))
  \/ \E c \in Consumers : Live(ConsumerStep(c))

\* a goroutine that can run is run, and a consumer that is not done calls Get
Fairness ==
  /\ \A p \in Producers : WF_vars(Live(ProducerStep(p)))
  /\ \A c \in Consumers : WF_vars(Live(ConsumerStep(c)))
  /\ \A c \in Consumers : WF_vars(Live(GetAgain(c)))

(***************************************************************************)
(* Properties of the listing sink.                                         *)
(***************************************************************************)

\* the goroutine is in an Add (resp. AddDir) call
InAdd(p) == pc[p] \in {"Add", "AddParked", "AddWoken"}

InAddDir(p) == pc[p] \in {"AddDir", "AddDirParked", "AddDirWoken"}

\* C1: for one listOpts used by concurrent SetError and Get calls, the abort
\* channel is closed at most once: close(o.abort) is never executed by two
\* Get calls.
C1_AbortClosedAtMostOnce == closeAbortCount <= 1

\* C2 as stated: once a SetError call with a non-nil error has returned, the
\* abort channel is closed, and every Add or AddDir call that starts
\* afterwards returns true.
C2_AbortedOnceSetErrorReturned ==
  /\ setErrReturned => abort
  /\ (ret.op \in {"Add", "AddDir"} /\ ret.late) => ret.kind = "true"

\* C2 amended: once a SetError call with a non-nil error has returned, the
\* abort channel is closed or the Get call that received the error is at its
\* close(o.abort); and an Add or AddDir call returns true only when the abort
\* channel is closed, and then it enqueues nothing.
C2_SetErrorLeadsToAbort ==
  /\ [](setErrReturned => (abort \/ \E c \in Consumers : pc[c] = "GetClose"))
  /\ [][\A p \in Producers :
          ((InAdd(p) \/ InAddDir(p)) /\ pc'[p] = "idle" /\ ret'.kind = "true")
            => (abort /\ objects' = objects /\ dirs' = dirs)]_vars

\* C2 witness: a SetError has returned, the abort channel is closed and an
\* Add that started afterwards has returned true.
C2_LateAddAborted ==
  /\ setErrReturned
  /\ abort
  /\ ret.op = "Add" /\ ret.late /\ ret.kind = "true"

\* C3: over the lifetime of the listOpts at most one of the errors passed to
\* SetError is returned by Get.
C3_OneErrorReturned == Cardinality(errsReturned) <= 1

\* C3 witness: two SetError calls with different errors have both returned
\* and Get has returned one of the two errors.
C3_TwoSetOneReturned ==
  /\ Cardinality(errsSet) = 2
  /\ \A p \in Producers : pc[p] # "SetError"
  /\ Cardinality(errsReturned) = 1

\* C4: when no error was set, Get returns (nil, nil, nil) only when nothing
\* accepted by Add or AddDir is left in the channels.
C4_NilOnlyWhenDrained ==
  (ret.op = "Get" /\ ret.kind = "nil" /\ ret.v = "clean") => ret.pend = 0


(***************************************************************************)
(* dropbox.Fs: the root and the paths under it.                            *)
(***************************************************************************)
\* Fs.setRoot: the three root fields for a root string
SetRoot(r) ==
  LET trimmed == TrimSlashes(r)
      lowerCaseRoot == ToLower(trimmed)
  IN  [root |-> trimmed,
       slashRoot |-> <<"/">> \o lowerCaseRoot,
       slashRootSlash |-> IF lowerCaseRoot # <<>>
                            THEN <<"/">> \o lowerCaseRoot \o <<"/">>
                            ELSE <<"/">> \o lowerCaseRoot]

\* stripRoot that does not count the error of a path outside the root
StripRoot_NoCount(path) ==
  IF ~HasPrefix(ToLower(path), slashRootSlash)
    THEN [ok |-> FALSE, path |-> <<>>, errs |-> 0]
    ELSE [ok |-> TRUE, path |-> SliceFrom(path, Len(slashRootSlash)), errs |-> 0]

\* stripRoot that cuts the root's length off any path, under the root or not
StripRoot_NoCheck(path) ==
  [ok |-> TRUE, path |-> SliceFrom(path, Len(slashRootSlash)), errs |-> 0]

\* Fs.stripRoot: nil and one more error when the lowercased path does not
\* start with slashRootSlash, else the path without that prefix
StripRoot(path) ==
  IF ~HasPrefix(ToLower(path), slashRootSlash)
    THEN [ok |-> FALSE, path |-> <<>>, errs |-> 1]
    ELSE [ok |-> TRUE, path |-> SliceFrom(path, Len(slashRootSlash)), errs |-> 0]

(***************************************************************************)
(* The name tree.  A directory node is named by the lowercased path that   *)
(* leads to it; its value is the case-correct name of the directory, or    *)
(* the empty string while that is unknown.  The root node is <<>>.         *)
(***************************************************************************)
\* strings.Join(components, "/")
RECURSIVE JoinSlash(_)
JoinSlash(comps) ==
  IF comps = <<>> THEN <<>>
  ELSE IF Len(comps) = 1 THEN comps[1]
  ELSE comps[1] \o <<"/">> \o JoinSlash(Tail(comps))

\* the index of the first empty component, 0 if there is none
FirstEmpty(comps) ==
  LET idx == {i \in 1..Len(comps) : comps[i] = <<>>}
  IN  IF idx = {} THEN 0 ELSE CHOOSE i \in idx : \A j \in idx : i <= j

LowerComps(path) ==
  LET comps == SplitSlash(path)
  IN  [i \in 1..Len(comps) |-> ToLower(comps[i])]

\* newNameTree()
NewNameTree == [dirs |-> <<>>, files |-> {}]

\* the directories of the tree with the nodes of the first n components added
WithNodes(dirMap, lower, n) ==
  LET new == {JoinSlash(SubSeq(lower, 1, k)) : k \in 1..n}
  IN  [d \in (DOMAIN dirMap) \cup new |->
         IF d \in DOMAIN dirMap THEN dirMap[d] ELSE <<>>]

\* nameTreeNode.getTreeNode: the node of a path, creating the nodes on the
\* way; an empty component is an error and yields no node
GetTreeNode(tree, path) ==
  IF path = <<>>
    THEN [ok |-> TRUE, node |-> <<>>, tree |-> tree, errs |-> 0]
    ELSE LET lower == LowerComps(path)
             k == FirstEmpty(lower)
         IN  IF k = 0
               THEN [ok |-> TRUE, node |-> JoinSlash(lower),
                     tree |-> [tree EXCEPT !.dirs = WithNodes(@, lower, Len(lower))],
                     errs |-> 0]
               ELSE [ok |-> FALSE, node |-> <<>>,
                     tree |-> [tree EXCEPT !.dirs = WithNodes(@, lower, k - 1)],
                     errs |-> 1]

\* the path of a child of a node
ChildOf(node, lowerName) ==
  IF node = <<>> THEN lowerName ELSE node \o <<"/">> \o lowerName

\* nameTreeNode.PutCaseCorrectDirectoryName
PutCaseCorrectDirectoryName(tree, parentPath, name) ==
  IF name = <<>>
    THEN [tree |-> tree, errs |-> 1]
    ELSE LET got == GetTreeNode(tree, parentPath)
             child == ChildOf(got.node, ToLower(name))
         IN  IF ~got.ok
               THEN [tree |-> got.tree, errs |-> got.errs]
             ELSE IF child \notin DOMAIN got.tree.dirs
               THEN [tree |-> [got.tree EXCEPT !.dirs =
                                 [d \in (DOMAIN @) \cup {child} |->
                                    IF d = child THEN name ELSE @[d]]],
                     errs |-> 0]
             ELSE IF got.tree.dirs[child] # <<>>
               THEN [tree |-> got.tree, errs |-> 1]
             ELSE [tree |-> [got.tree EXCEPT !.dirs[child] = name], errs |-> 0]

\* nameTreeNode.PutFile: a file waits in the node of its parent path
PutFile(tree, parentPath, name, entry) ==
  LET got == GetTreeNode(tree, parentPath)
  IN  IF ~got.ok
        THEN [tree |-> got.tree, errs |-> got.errs]
      ELSE IF \E f \in got.tree.files : f.parent = got.node /\ f.name = name
        THEN [tree |-> got.tree, errs |-> 1]
      ELSE [tree |-> [got.tree EXCEPT !.files =
                        @ \cup {[parent |-> got.node, name |-> name,
                                 entry |-> entry]}],
            errs |-> 0]

\* the loop of GetPathWithCorrectCase over the components from the k-th on
RECURSIVE CorrectCaseFrom(_, _, _)
CorrectCaseFrom(tree, lower, k) ==
  IF k > Len(lower) THEN [found |-> TRUE, path |-> <<>>, errs |-> 0]
  ELSE IF lower[k] = <<>> THEN [found |-> FALSE, path |-> <<>>, errs |-> 1]
  ELSE LET node == JoinSlash(SubSeq(lower, 1, k))
       IN  IF node \notin DOMAIN tree.dirs \/ tree.dirs[node] = <<>>
             THEN [found |-> FALSE, path |-> <<>>, errs |-> 0]
             ELSE LET rest == CorrectCaseFrom(tree, lower, k + 1)
                  IN  [found |-> rest.found,
                       path |-> IF rest.found
                                  THEN <<"/">> \o tree.dirs[node] \o rest.path
                                  ELSE <<>>,
                       errs |-> rest.errs]

\* nameTreeNode.GetPathWithCorrectCase: the path with the case-correct name
\* of every directory, when all of them are known
GetPathWithCorrectCase(tree, path) ==
  IF path = <<>>
    THEN [found |-> TRUE, path |-> <<>>, errs |-> 0]
    ELSE CorrectCaseFrom(tree, LowerComps(path), 1)

\* a node lies in the subtree of another
InSubtree(d, node) ==
  \/ node = <<>>
  \/ d = node
  \/ HasPrefix(d, node \o <<"/">>)

\* the path walkFilesRec has built when it reaches node d from the node of
\* rootPath: every directory below the start by its case-correct name, or by
\* its lowercase name while that is unknown
WalkPath(tree, rootPath, start, d) ==
  LET comps == IF d = <<>> THEN <<>> ELSE SplitSlash(d)
      n0 == IF start = <<>> THEN 0 ELSE Len(SplitSlash(start))
      names == [k \in 1..(Len(comps) - n0) |->
                  LET node == JoinSlash(SubSeq(comps, 1, n0 + k))
                  IN  IF tree.dirs[node] # <<>> THEN tree.dirs[node]
                      ELSE comps[n0 + k]]
  IN  IF rootPath = <<>> THEN JoinSlash(names)
      ELSE IF names = <<>> THEN rootPath
      ELSE rootPath \o <<"/">> \o JoinSlash(names)

\* what nameTreeNode.WalkFiles visits from the node of rootPath: every file
\* of the subtree with its case-correct path, and every directory of the
\* subtree whose name is unknown (an error)
WalkItems(tree, rootPath, start) ==
  {[kind |-> "file",
    path |-> LET dir == WalkPath(tree, rootPath, start, f.parent)
             IN  IF dir = <<>> THEN f.name ELSE dir \o <<"/">> \o f.name,
    entry |-> f.entry] :
     f \in {g \in tree.files : InSubtree(g.parent, start)}}
  \cup
  {[kind |-> "dir", path |-> d, entry |-> [nil |-> TRUE, path |-> <<>>, isDir |-> FALSE, late |-> FALSE]] :
     d \in {e \in DOMAIN tree.dirs :
              /\ e # start
              /\ InSubtree(e, start)
              /\ tree.dirs[e] = <<>>}}


(***************************************************************************)
(* Object and the calls of Fs that make one.                               *)
(***************************************************************************)
\* the sizes of the content uploaded
Sizes == {1, 2}

\* the nil *dropbox.Entry and the nil fs.Object
NilInfo == [bytes |-> 0, mtime |-> 0, nil |-> TRUE]
NilObject == [remote |-> <<>>, bytes |-> 0, modTime |-> 0,
              hasMetadata |-> FALSE, nil |-> TRUE]

\* &Object{fs: f, remote: remote}
NewObject(remote) ==
  [remote |-> remote, bytes |-> 0, modTime |-> 0, hasMetadata |-> FALSE,
   nil |-> FALSE]

\* setMetadataFromEntry that leaves the size as it was
SetMetadataFromEntry_NoSize(o, info) ==
  [o EXCEPT !.modTime = info.mtime, !.hasMetadata = TRUE]

\* Object.setMetadataFromEntry
SetMetadataFromEntry(o, info) ==
  [o EXCEPT !.bytes = info.bytes, !.modTime = info.mtime, !.hasMetadata = TRUE]

\* Object.remotePath
RemotePath(o) == slashRootSlash \o o.remote

\* f.db.Metadata(path, ...): a transport failure, or else what the store
\* holds at the path
Metadata(store, path, transportFails) ==
  IF transportFails THEN [err |-> "transport", entry |-> NilInfo]
  ELSE IF ToLower(path) \notin DOMAIN store
    THEN [err |-> "notfound", entry |-> NilInfo]
  ELSE [err |-> "nil", entry |-> store[ToLower(path)]]

\* Object.readEntry and Object.readEntryAndSetMetadata, md the answer of
\* f.db.Metadata
ReadEntryAndSetMetadata(o, md) ==
  IF o.modTime # 0 THEN [err |-> "nil", o |-> o]
  ELSE IF md.err # "nil" THEN [err |-> "Error reading file", o |-> o]
  ELSE [err |-> "nil", o |-> SetMetadataFromEntry(o, md.entry)]

\* newFsObjectWithInfo that returns the object also when its metadata could
\* not be read
NewFsObjectWithInfo_KeepOnError(remote, info, md) ==
  IF ~info.nil THEN SetMetadataFromEntry(NewObject(remote), info)
  ELSE ReadEntryAndSetMetadata(NewObject(remote), md).o

\* Fs.newFsObjectWithInfo: nil when the metadata cannot be read
NewFsObjectWithInfo(remote, info, md) ==
  IF ~info.nil THEN SetMetadataFromEntry(NewObject(remote), info)
  ELSE LET read == ReadEntryAndSetMetadata(NewObject(remote), md)
       IN  IF read.err # "nil" THEN NilObject ELSE read.o

\* the alternatives of the ignoredFiles regexp; "<any>" is its unescaped dot
IgnoredAlternatives ==
  { <<"d", "e", "s", "k", "t", "o", "p", ".", "i", "n", "i">>,
    <<"t", "h", "u", "m", "b", "s", ".", "d", "b">>,
    <<".", "d", "s", "_", "s", "t", "o", "r", "e">>,
    <<"i", "c", "o", "n", "\r">>,
    <<".", "d", "r", "o", "p", "b", "o", "x">>,
    <<".", "d", "r", "o", "p", "b", "o", "x", "<any>", "a", "t", "t", "r">> }

\* one character of the text against one of the pattern, with no (?i)
CharMatches_CaseSensitive(pchar, c) ==
  IF pchar = "<any>" THEN c # "\n" ELSE c = pchar

\* one character of the text against one of the pattern, under (?i)
CharMatches(pchar, c) ==
  IF pchar = "<any>" THEN c # "\n" ELSE LowerChar(c) = pchar

\* ignoredFiles.MatchString: (?i)(^|/)(alternatives)$
IgnoredFilesMatch(text) ==
  \E i \in 1..Len(text) :
    /\ i = 1 \/ text[i - 1] = "/"
    /\ \E alt \in IgnoredAlternatives :
         /\ Len(text) - i + 1 = Len(alt)
         /\ \A k \in 1..Len(alt) : CharMatches(alt[k], text[i + k - 1])

\* the remote paths the caller uses
Remotes ==
  { <<"F">>,
    <<"T", "h", "u", "m", "b", "s", ".", "d", "b">>,
    <<"A", "/", ".", "D", "S", "_", "S", "t", "o", "r", "e">>,
    <<"x", "t", "h", "u", "m", "b", "s", ".", "d", "b">> }

NoOp == [op |-> "none", path |-> <<>>, err |-> "nil", result |-> NilObject]

\* an empty store; nothing has been called
StoreInit ==
  /\ db = <<>>
  /\ held = NilObject
  /\ ops = 0
  /\ uploadCalls = 0
  /\ lastOp = NoOp
  /\ nfoResults = {}
  /\ storable = "none"

\* the store with an entry put at a path
StoreWith(store, path, entry) ==
  [q \in (DOMAIN store) \cup {ToLower(path)} |->
     IF q = ToLower(path) THEN entry ELSE store[q]]

\* Fs.NewFsObject(remote)
FsNewFsObject(remote, transportFails) ==
  /\ ops < MaxOps
  /\ ops' = ops + 1
  /\ LET md == Metadata(db, RemotePath(NewObject(remote)), transportFails)
         o == NewFsObjectWithInfo(remote, NilInfo, md)
     IN  /\ held' = o
         /\ lastOp' = [op |-> "NewFsObject", path |-> RemotePath(NewObject(remote)),
                       err |-> md.err, result |-> o]
         /\ nfoResults' = nfoResults \cup {[cause |-> md.err, result |-> o]}
  /\ UNCHANGED <<db, uploadCalls, statsErrors, storable>>

\* Object.Update without the test of the ignored names
UpdateObject_NoIgnore(op, o, size, uploadFails) ==
  /\ uploadCalls' = uploadCalls + 1
  /\ IF uploadFails
       THEN /\ lastOp' = [op |-> op, path |-> RemotePath(o),
                          err |-> "Upload failed", result |-> o]
            /\ held' = o
            /\ UNCHANGED db
       ELSE LET entry == [bytes |-> size, mtime |-> 1, nil |-> FALSE]
            IN  /\ db' = StoreWith(db, RemotePath(o), entry)
                /\ held' = SetMetadataFromEntry(o, entry)
                /\ lastOp' = [op |-> op, path |-> RemotePath(o),
                              err |-> "nil",
                              result |-> SetMetadataFromEntry(o, entry)]

\* Object.Update: the upload is skipped for an ignored name
UpdateObject(op, o, size, uploadFails) ==
  IF IgnoredFilesMatch(RemotePath(o))
    THEN /\ lastOp' = [op |-> op, path |-> RemotePath(o), err |-> "nil",
                       result |-> o]
         /\ held' = o
         /\ UNCHANGED <<db, uploadCalls>>
    ELSE UpdateObject_NoIgnore(op, o, size, uploadFails)

\* Object.Update on the Object the caller holds
ObjectUpdate(size, uploadFails) ==
  /\ ops < MaxOps
  /\ ops' = ops + 1
  /\ ~held.nil
  /\ UpdateObject("Update", held, size, uploadFails)
  /\ UNCHANGED <<statsErrors, nfoResults, storable>>

\* Put that returns the nil Object when the upload fails
FsPut_NilOnError(remote, size, uploadFails) ==
  /\ ops < MaxOps
  /\ ops' = ops + 1
  /\ IF uploadFails /\ ~IgnoredFilesMatch(RemotePath(NewObject(remote)))
       THEN /\ uploadCalls' = uploadCalls + 1
            /\ lastOp' = [op |-> "Put", path |-> RemotePath(NewObject(remote)),
                          err |-> "Upload failed", result |-> NilObject]
            /\ held' = NilObject
            /\ UNCHANGED db
       ELSE UpdateObject("Put", NewObject(remote), size, uploadFails)
  /\ UNCHANGED <<statsErrors, nfoResults, storable>>

\* Fs.Put(in, remote, modTime, size): return o, o.Update(in, modTime, size)
FsPut(remote, size, uploadFails) ==
  /\ ops < MaxOps
  /\ ops' = ops + 1
  /\ UpdateObject("Put", NewObject(remote), size, uploadFails)
  /\ UNCHANGED <<statsErrors, nfoResults, storable>>

\* Storable that refuses the names Update does not upload
Storable_IgnoredRefused(o) == ~IgnoredFilesMatch(RemotePath(o))

\* Object.Storable
Storable(o) == TRUE

\* Object.Storable called on the Object the caller holds
ObjectStorable ==
  /\ ops < MaxOps
  /\ ops' = ops + 1
  /\ ~held.nil
  /\ storable' = IF Storable(held) THEN "true" ELSE "false"
  /\ lastOp' = [op |-> "Storable", path |-> RemotePath(held), err |-> "nil",
                result |-> held]
  /\ UNCHANGED <<db, held, uploadCalls, nfoResults, statsErrors>>

(***************************************************************************)
(* Fs.List and Fs.list: the delta listing.                                 *)
(***************************************************************************)
\* the root strings an Fs is made with
Roots == {<<>>, <<"/", "R", "/">>}

\* the paths the backend reports in delta entries
EntryPaths ==
  { <<"/", "r">>,
    <<"/", "r", "/", "A">>,
    <<"/", "R", "/", "a", "/", "f">>,
    <<"/", "r", "/", "F">>,
    <<"/", "f">>,
    <<"/">>,
    <<"f", "/">> }

\* a delta entry whose Entry is nil: the notice of a deletion
NilEntry == [nil |-> TRUE, path |-> <<>>, isDir |-> FALSE]

\* deltaPage.Entries[i].Entry
Entries ==
  {NilEntry} \cup
  {[nil |-> FALSE, path |-> q, isDir |-> d] : q \in EntryPaths, d \in BOOLEAN}

Cursors == {"", "c1"}

NoPage == [n |-> 0, hasMore |-> FALSE, cursor |-> "", reset |-> FALSE,
           err |-> FALSE]

\* an entry, marked late when it comes in the delta stream after an entry
\* whose path stripRoot refused
Stamped(entry, isLate) ==
  [nil |-> entry.nil, path |-> entry.path, isDir |-> entry.isDir,
   late |-> isLate]

NoObject == [remote |-> <<>>, info |-> Stamped(NilEntry, FALSE)]

\* Delta returned an error and no page
ErrPage == [n |-> 0, hasMore |-> FALSE, cursor |-> "", reset |-> FALSE,
            err |-> TRUE]

\* Fs.newFsObjectWithInfo(remote, info) with info != nil
ObjectWithInfo(remote, info) == [remote |-> remote, info |-> info]

\* the state of an Fs made with root string r, with no listing started
FsInit(r) ==
  /\ root = SetRoot(r).root
  /\ slashRoot = SetRoot(r).slashRoot
  /\ slashRootSlash = SetRoot(r).slashRootSlash
  /\ statsErrors = 0

\* Fs.ListDir has not been called
ListDirIdle ==
  /\ ldpc = "idle"
  /\ ldContents = <<>>
  /\ dirOut = <<>>
  /\ dirOutClosed = FALSE

\* Fs.List has made the channel and started the goroutine
ListStart ==
  /\ lpc = "delta"
  /\ cursor = ""
  /\ page = NoPage
  /\ nameTree = NewNameTree
  /\ walkTodo = {}
  /\ sending = NoObject
  /\ out = <<>>
  /\ outClosed = FALSE
  /\ consumerStopped = FALSE
  /\ ListDirIdle
  /\ deltaCalls = 0
  /\ processed = 0
  /\ emitted = <<>>
  /\ stripFails = 0

\* deltaPage.Reset && cursor != "", with the test of the cursor left out
UnexpectedReset_AnyReset(reset, cur) == reset

\* deltaPage.Reset && cursor != ""
UnexpectedReset(reset, cur) == reset /\ cur # ""

\* a failed Delta call after which the name tree is not walked
ListDeltaError_SkipWalk ==
  /\ lpc = "delta"
  /\ deltaCalls' = deltaCalls + 1
  /\ statsErrors' = statsErrors + 1
  /\ lpc' = "close"
  /\ page' = ErrPage
  /\ UNCHANGED <<cursor, nameTree, walkTodo, sending, out, outClosed,
                 consumerStopped, processed, emitted, stripFails>>

\* f.db.Delta(cursor, f.slashRoot) fails
ListDeltaError ==
  /\ lpc = "delta"
  /\ deltaCalls' = deltaCalls + 1
  /\ statsErrors' = statsErrors + 1
  /\ lpc' = "walk"
  /\ page' = ErrPage
  /\ UNCHANGED <<cursor, nameTree, walkTodo, sending, out, outClosed,
                 consumerStopped, processed, emitted, stripFails>>

\* f.db.Delta(cursor, f.slashRoot) returns a page of n entries
ListDeltaPage(reset, hasMore, newCursor, n) ==
  /\ lpc = "delta"
  /\ deltaCalls < MaxPages
  /\ hasMore => deltaCalls + 1 < MaxPages
  /\ processed + n <= MaxEntries
  /\ deltaCalls' = deltaCalls + 1
  /\ page' = [n |-> n, hasMore |-> hasMore, cursor |-> newCursor,
               reset |-> reset, err |-> FALSE]
  /\ IF UnexpectedReset(reset, cursor)
       THEN /\ statsErrors' = statsErrors + 1
            /\ lpc' = "walk"
       ELSE /\ lpc' = "entries"
            /\ UNCHANGED statsErrors
  /\ UNCHANGED <<cursor, nameTree, walkTodo, sending, out, outClosed,
                 consumerStopped, processed, emitted, stripFails>>

\* the parent path and the last component of an entry path
ParentPath(path) ==
  IF LastSlashIndex(path) = 0 THEN <<>>
  ELSE SubSeq(path, 2, LastSlashIndex(path))

LastComponent(path) == SliceFrom(path, LastSlashIndex(path) + 1)

\* one turn of the loop over deltaPage.Entries
ListEntry(e) ==
  /\ lpc = "entries"
  /\ page.n > 0
  /\ page' = [page EXCEPT !.n = @ - 1]
  /\ processed' = processed + 1
  /\ LET entry == Stamped(e, stripFails > 0) IN
     IF entry.nil
       THEN \* the notice of a deleted object
            UNCHANGED <<statsErrors, lpc, nameTree, sending, stripFails>>
     ELSE IF Len(entry.path) <= 1 \/ entry.path[1] # "/"
       THEN /\ statsErrors' = statsErrors + 1
            /\ UNCHANGED <<lpc, nameTree, sending, stripFails>>
     ELSE IF entry.isDir
       THEN LET put == PutCaseCorrectDirectoryName(
                         nameTree, ParentPath(entry.path),
                         LastComponent(entry.path))
            IN  /\ nameTree' = put.tree
                /\ statsErrors' = statsErrors + put.errs
                /\ UNCHANGED <<lpc, sending, stripFails>>
     ELSE LET parentPathCorrectCase ==
                GetPathWithCorrectCase(nameTree, ParentPath(entry.path))
          IN  IF parentPathCorrectCase.found
                THEN LET stripped == StripRoot(parentPathCorrectCase.path
                                                 \o <<"/">>
                                                 \o LastComponent(entry.path))
                     IN  IF ~stripped.ok
                           THEN /\ statsErrors' = statsErrors + stripped.errs
                                /\ stripFails' = stripFails + 1
                                /\ UNCHANGED <<lpc, nameTree, sending>>
                           ELSE /\ sending' = ObjectWithInfo(stripped.path, entry)
                                /\ lpc' = "sendEntry"
                                /\ UNCHANGED <<statsErrors, nameTree, stripFails>>
                ELSE LET put == PutFile(nameTree, ParentPath(entry.path),
                                        LastComponent(entry.path), entry)
                     IN  /\ nameTree' = put.tree
                         /\ statsErrors' =
                              statsErrors + parentPathCorrectCase.errs + put.errs
                         /\ UNCHANGED <<lpc, sending, stripFails>>
  /\ UNCHANGED <<cursor, walkTodo, out, outClosed, consumerStopped, deltaCalls,
                 emitted>>

\* out <- object: the send waits for room in the channel
ListSend ==
  /\ lpc \in {"sendEntry", "sendWalk"}
  /\ Len(out) < Checkers
  /\ out' = Append(out, sending)
  /\ emitted' = Append(emitted, sending)
  /\ sending' = NoObject
  /\ lpc' = IF lpc = "sendEntry" THEN "entries" ELSE "walking"
  /\ UNCHANGED <<statsErrors, cursor, page, nameTree, walkTodo, outClosed, consumerStopped,
                 deltaCalls, processed, stripFails>>

\* the end of a page: if !deltaPage.HasMore { break }; cursor = ...
ListPageEnd ==
  /\ lpc = "entries"
  /\ page.n = 0
  /\ IF ~page.hasMore
       THEN lpc' = "walk" /\ UNCHANGED cursor
       ELSE lpc' = "delta" /\ cursor' = page.cursor
  /\ page' = NoPage
  /\ UNCHANGED <<statsErrors, nameTree, walkTodo, sending, out, outClosed, consumerStopped,
                 deltaCalls, processed, emitted, stripFails>>

\* nameTree.WalkFiles(f.root, walkFunc) finds the node of the root
ListWalkStart ==
  /\ lpc = "walk"
  /\ LET got == GetTreeNode(nameTree, root)
     IN  /\ nameTree' = got.tree
         /\ statsErrors' = statsErrors + got.errs
         /\ IF got.ok
              THEN /\ walkTodo' = WalkItems(got.tree, root, got.node)
                   /\ lpc' = "walking"
              ELSE /\ walkTodo' = {}
                   /\ lpc' = "close"
  /\ page' = NoPage
  /\ UNCHANGED <<cursor, sending, out, outClosed, consumerStopped, deltaCalls,
                 processed, emitted, stripFails>>

\* a walk that comes back to the files it has visited
ListWalkItem_Revisit(item) ==
  /\ lpc = "walking"
  /\ item \in walkTodo
  /\ item.kind = "file"
  /\ StripRoot(<<"/">> \o item.path).ok
  /\ sending' = ObjectWithInfo(StripRoot(<<"/">> \o item.path).path, item.entry)
  /\ lpc' = "sendWalk"
  /\ UNCHANGED <<statsErrors, stripFails, walkTodo, cursor, page, nameTree, out,
                 outClosed, consumerStopped, deltaCalls, processed, emitted>>

\* WalkFiles reaches a directory of unknown name, or a file: walkFunc
ListWalkItem(item) ==
  /\ lpc = "walking"
  /\ item \in walkTodo
  /\ walkTodo' = walkTodo \ {item}
  /\ IF item.kind = "dir"
       THEN /\ statsErrors' = statsErrors + 1
            /\ UNCHANGED <<lpc, sending, stripFails>>
       ELSE LET stripped == StripRoot(<<"/">> \o item.path)
            IN  IF ~stripped.ok
                  THEN /\ statsErrors' = statsErrors + stripped.errs
                       /\ stripFails' = stripFails + 1
                       /\ UNCHANGED <<lpc, sending>>
                  ELSE /\ sending' = ObjectWithInfo(stripped.path, item.entry)
                       /\ lpc' = "sendWalk"
                       /\ UNCHANGED <<statsErrors, stripFails>>
  /\ UNCHANGED <<cursor, page, nameTree, out, outClosed, consumerStopped,
                 deltaCalls, processed, emitted>>

\* WalkFiles and with it f.list return
ListWalkEnd ==
  /\ lpc = "walking"
  /\ walkTodo = {}
  /\ lpc' = "close"
  /\ UNCHANGED <<statsErrors, cursor, page, nameTree, walkTodo, sending, out,
                 outClosed, consumerStopped, deltaCalls, processed, emitted,
                 stripFails>>

\* a goroutine that ends without closing out
ListClose_Leak ==
  /\ lpc = "close"
  /\ lpc' = "done"
  /\ UNCHANGED <<statsErrors, cursor, page, nameTree, walkTodo, sending, out,
                 outClosed, consumerStopped, deltaCalls, processed, emitted,
                 stripFails>>

\* defer close(out)
ListClose ==
  /\ lpc = "close"
  /\ outClosed' = TRUE
  /\ lpc' = "done"
  /\ UNCHANGED <<statsErrors, cursor, page, nameTree, walkTodo, sending, out,
                 consumerStopped, deltaCalls, processed, emitted, stripFails>>

\* the consumer of the listing receives an object from out
ConsumerReceive ==
  /\ ~consumerStopped
  /\ out # <<>>
  /\ out' = Tail(out)
  /\ UNCHANGED <<statsErrors, lpc, cursor, page, nameTree, walkTodo, sending,
                 outClosed, consumerStopped, deltaCalls, processed, emitted,
                 stripFails>>

\* the consumer of the listing aborts: it receives nothing more from out
ConsumerStop ==
  /\ ~consumerStopped
  /\ consumerStopped' = TRUE
  /\ UNCHANGED <<statsErrors, lpc, cursor, page, nameTree, walkTodo, sending,
                 out, outClosed, deltaCalls, processed, emitted, stripFails>>

\* the steps of the goroutine started by Fs.List
ListerStep ==
  \/ ListDeltaError
  \/ \E reset \in BOOLEAN, hasMore \in BOOLEAN, newCursor \in Cursors,
        n \in 0..MaxEntries : ListDeltaPage(reset, hasMore, newCursor, n)
  \/ \E entry \in Entries : ListEntry(entry)
  \/ ListSend
  \/ ListPageEnd
  \/ ListWalkStart
  \/ \E item \in walkTodo : ListWalkItem(item)
  \/ ListWalkEnd
  \/ ListClose

(***************************************************************************)
(* The directory of an Fs: NewFs, Mkdir, Rmdir, Copy, Move, DirMove.       *)
(***************************************************************************)
\* calls on the Fs in one run
MaxDirOps == 3

\* *dropbox.Entry of a directory, of a file, of an entry that was deleted
DirEntry == [bytes |-> 0, mtime |-> 0, nil |-> FALSE, isDir |-> TRUE,
             isDeleted |-> FALSE]
FileEntry(size) == [bytes |-> size, mtime |-> 1, nil |-> FALSE,
                    isDir |-> FALSE, isDeleted |-> FALSE]
DeletedEntry(entry) == [entry EXCEPT !.isDeleted = TRUE]

\* the path is the top of the Dropbox, or Dropbox holds a live entry at it
Exists(t, path) ==
  \/ path = <<"/">>
  \/ /\ ToLower(path) \in DOMAIN t
     /\ ~t[ToLower(path)].isDeleted

\* the path of the directory a path lies in
DbParent(q) ==
  IF LastSlashIndex(q) <= 0 THEN <<"/">> ELSE SubSeq(q, 1, LastSlashIndex(q))

\* entry.Contents that is always empty
Contents_None(t, path) == {}

\* entry.Contents of f.db.Metadata(path, true, false, ...)
Contents(t, path) ==
  {q \in DOMAIN t : ~t[q].isDeleted /\ DbParent(q) = ToLower(path)}

\* f.db.Metadata on the tree: the top of the Dropbox is a directory
DbMetadata(t, path, transportFails) ==
  IF ~transportFails /\ path = <<"/">>
    THEN [err |-> "nil", entry |-> DirEntry]
    ELSE Metadata(t, path, transportFails)

\* f.db.CreateFolder(path)
DbCreateFolder(t, path, transportFails) ==
  IF transportFails THEN [err |-> "transport", tree |-> t]
  ELSE IF Exists(t, path) THEN [err |-> "conflict", tree |-> t]
  ELSE [err |-> "nil", tree |-> StoreWith(t, path, DirEntry)]

\* the path is the path src or lies below it
Below(q, src) == q = src \/ HasPrefix(q, src \o <<"/">>)

\* f.db.Delete(path): the entry is marked deleted, what is below it goes
DbDelete(t, path, transportFails) ==
  IF transportFails THEN [err |-> "transport", tree |-> t]
  ELSE IF path = <<"/">> \/ ~Exists(t, path)
    THEN [err |-> "notfound", tree |-> t]
  ELSE [err |-> "nil",
        tree |-> [q \in {k \in DOMAIN t :
                           k = ToLower(path) \/ ~Below(k, ToLower(path))} |->
                    IF q = ToLower(path) THEN DeletedEntry(t[q]) ELSE t[q]]]

\* the tree with what is at src and below it put at dst, src kept or not
Relocated(t, src, dst, keepSrc) ==
  LET moved == {q \in DOMAIN t : Below(q, src)}
      kept  == {q \in DOMAIN t : (keepSrc \/ ~Below(q, src)) /\ ~Below(q, dst)}
      new   == {dst \o SliceFrom(q, Len(src)) : q \in moved}
  IN  [k \in kept \cup new |->
         IF k \in new THEN t[src \o SliceFrom(k, Len(dst))] ELSE t[k]]

\* f.db.Copy(src, dst) and f.db.Move(src, dst): refused when the source does
\* not exist or the destination does
DbRelocate(t, src, dst, keepSrc, transportFails) ==
  IF transportFails THEN [err |-> "transport", tree |-> t, entry |-> NilInfo]
  ELSE IF src = <<"/">> \/ ~Exists(t, src)
    THEN [err |-> "notfound", tree |-> t, entry |-> NilInfo]
  ELSE IF Exists(t, dst) \/ Below(ToLower(dst), ToLower(src))
    THEN [err |-> "conflict", tree |-> t, entry |-> NilInfo]
  ELSE [err |-> "nil",
        tree |-> Relocated(t, ToLower(src), ToLower(dst), keepSrc),
        entry |-> t[ToLower(src)]]

DbCopy(t, src, dst, transportFails) ==
  DbRelocate(t, src, dst, TRUE, transportFails)

DbMove(t, src, dst, transportFails) ==
  DbRelocate(t, src, dst, FALSE, transportFails)

\* path.Base and path.Dir of Go, on a path with no slash at either end
PathBase(p) == IF p = <<>> THEN <<".">> ELSE SliceFrom(p, LastSlashIndex(p) + 1)
PathDir(p) ==
  IF LastSlashIndex(p) = -1 THEN <<".">> ELSE SubSeq(p, 1, LastSlashIndex(p))

\* the root strings NewFs is called with
NewFsRoots ==
  { <<>>, <<"D">>, <<"D", "/", "F">>, <<"F">>, <<"A">>, <<"/", "B", "/">> }

\* the source paths of Copy and Move, the remotes of their destinations, the
\* roots of the source Fs of DirMove
SrcPaths == { <<"/", "d", "/", "f">>, <<"/", "f">>, <<"/", "b">> }
DstRemotes == { <<"F">>, <<"B">> }
SrcRoots == { <<"/", "d">>, <<"/", "a">>, <<"/", "b">> }

\* what the top-level file F and the top-level directory A may be at first
EntryStates == {"live", "deleted", "absent"}

\* the trees a run starts with: a directory D holding a file F, and maybe a
\* file F and an empty directory A at top level
TreeWith(t, path, entry, state) ==
  IF state = "live" THEN StoreWith(t, path, entry)
  ELSE IF state = "deleted" THEN StoreWith(t, path, DeletedEntry(entry))
  ELSE t

InitialTrees ==
  { TreeWith(
      TreeWith(
        StoreWith(StoreWith(<<>>, <<"/", "d">>, DirEntry),
                  <<"/", "d", "/", "f">>, FileEntry(1)),
        <<"/", "f">>, FileEntry(2), fState),
      <<"/", "a">>, DirEntry, aState) :
    fState \in EntryStates, aState \in EntryStates }

\* the Fs is not wrapped by fs.NewLimited
NotLimited == [is |-> FALSE, objects |-> <<>>]

\* no answer of the backend
NoRead == [err |-> "none", entry |-> NilInfo]

NoDirOp == [op |-> "none", arg |-> <<>>, err |-> "nil", obj |-> NilObject,
            calls |-> <<>>, ok |-> TRUE, read |-> NoRead]

\* no call on the directory has been made on the tree t
DirStart(t) ==
  /\ dropbox = t
  /\ dirOps = 0
  /\ lastDir = NoDirOp
  /\ limited = NotLimited

\* a call on the Fs begins
DirCall ==
  /\ dirOps < MaxDirOps
  /\ dirOps' = dirOps + 1
  /\ UNCHANGED statsErrors

\* dropbox.NewFs(name, root)
DropboxNewFs(r, setupFails, transportFails1, transportFails2) ==
  /\ DirCall
  /\ UNCHANGED dropbox
  /\ IF setupFails
       THEN /\ lastDir' = [op |-> "NewFs", arg |-> r, err |-> "setup",
                           obj |-> NilObject, calls |-> <<>>,
                                        ok |-> TRUE, read |-> NoRead]
            /\ UNCHANGED <<root, slashRoot, slashRootSlash, limited>>
       ELSE
         LET f0 == SetRoot(r)
             md == DbMetadata(dropbox, f0.slashRoot, transportFails1)
         IN  IF md.err = "nil" /\ ~md.entry.isDir
               THEN LET remote == PathBase(f0.root)
                        dir == PathDir(f0.root)
                        newRoot == IF dir = <<".">> THEN <<>> ELSE dir
                        f1 == SetRoot(newRoot)
                        md2 == DbMetadata(dropbox, f1.slashRootSlash \o remote,
                                          transportFails2)
                        obj == NewFsObjectWithInfo(remote, NilInfo, md2)
                    IN  /\ root' = f1.root
                        /\ slashRoot' = f1.slashRoot
                        /\ slashRootSlash' = f1.slashRootSlash
                        /\ limited' = [is |-> TRUE, objects |-> <<obj>>]
                        /\ lastDir' = [op |-> "NewFs", arg |-> r,
                                       err |-> "nil", obj |-> obj,
                                       calls |-> <<"Metadata", "Metadata">>,
                                        ok |-> TRUE, read |-> md]
               ELSE /\ root' = f0.root
                    /\ slashRoot' = f0.slashRoot
                    /\ slashRootSlash' = f0.slashRootSlash
                    /\ limited' = NotLimited
                    /\ lastDir' = [op |-> "NewFs", arg |-> r, err |-> "nil",
                                   obj |-> NilObject,
                                   calls |-> <<"Metadata">>,
                                        ok |-> TRUE, read |-> md]

\* the test of Mkdir that takes only a directory for a root that is there
RootFound_OnlyDirs(md) == md.err = "nil" /\ md.entry.isDir

\* the test of Mkdir for a root that is there already: err == nil
RootFound(md) == md.err = "nil"

\* Fs.Mkdir
FsMkdir(transportFails, createFails) ==
  /\ DirCall
  /\ LET md == DbMetadata(dropbox, slashRoot, transportFails)
         made == DbCreateFolder(dropbox, slashRoot, createFails)
     IN  IF RootFound(md)
           THEN /\ lastDir' = [op |-> "Mkdir", arg |-> slashRoot,
                               err |-> IF md.entry.isDir THEN "nil"
                                       ELSE "already exists as file",
                               obj |-> NilObject, calls |-> <<"Metadata">>,
                                        ok |-> TRUE, read |-> md]
                /\ UNCHANGED dropbox
           ELSE /\ lastDir' = [op |-> "Mkdir", arg |-> slashRoot,
                               err |-> made.err, obj |-> NilObject,
                               calls |-> <<"Metadata", "CreateFolder">>,
                                        ok |-> TRUE, read |-> md]
                /\ dropbox' = made.tree
  /\ UNCHANGED <<root, slashRoot, slashRootSlash, limited>>

\* Fs.Purge: f.db.Delete(f.slashRoot)
Purge(t, transportFails) == DbDelete(t, slashRoot, transportFails)

\* Fs.Rmdir
FsRmdir(transportFails, deleteFails) ==
  /\ DirCall
  /\ LET md == DbMetadata(dropbox, slashRoot, transportFails)
         purged == Purge(dropbox, deleteFails)
     IN  IF md.err # "nil"
           THEN /\ lastDir' = [op |-> "Rmdir", arg |-> slashRoot,
                               err |-> md.err, obj |-> NilObject,
                               calls |-> <<"Metadata">>,
                                        ok |-> TRUE, read |-> md]
                /\ UNCHANGED dropbox
         ELSE IF Cardinality(Contents(dropbox, slashRoot)) # 0
           THEN /\ lastDir' = [op |-> "Rmdir", arg |-> slashRoot,
                               err |-> "Directory not empty",
                               obj |-> NilObject, calls |-> <<"Metadata">>,
                                        ok |-> TRUE, read |-> md]
                /\ UNCHANGED dropbox
         ELSE /\ lastDir' = [op |-> "Rmdir", arg |-> slashRoot,
                             err |-> purged.err, obj |-> NilObject,
                             calls |-> <<"Metadata", "Delete">>,
                                        ok |-> TRUE, read |-> md]
              /\ dropbox' = purged.tree
  /\ UNCHANGED <<root, slashRoot, slashRootSlash, limited>>

\* Fs.Copy and Fs.Move: server side, what == "Copy" or "Move"
ServerSide(what, isObject, srcPath, remote, transportFails) ==
  /\ DirCall
  /\ IF ~isObject
       THEN /\ lastDir' = [op |-> what, arg |-> <<>>,
                           err |-> IF what = "Copy" THEN "ErrorCantCopy"
                                   ELSE "ErrorCantMove",
                           obj |-> NilObject, calls |-> <<>>,
                                        ok |-> FALSE, read |-> NoRead]
            /\ UNCHANGED dropbox
       ELSE
         LET dstObj == NewObject(remote)
             srcPathOfObj == srcPath
             dstPath == RemotePath(dstObj)
             done == IF what = "Copy"
                       THEN DbCopy(dropbox, srcPathOfObj, dstPath,
                                   transportFails)
                       ELSE DbMove(dropbox, srcPathOfObj, dstPath,
                                   transportFails)
             answer == [err |-> done.err, entry |-> done.entry]
         IN  IF done.err # "nil"
               THEN /\ lastDir' = [op |-> what, arg |-> dstPath,
                                   err |-> IF what = "Copy" THEN "Copy failed"
                                           ELSE "Move failed",
                                   obj |-> NilObject, calls |-> <<what>>,
                                        ok |-> TRUE, read |-> answer]
                    /\ UNCHANGED dropbox
               ELSE /\ lastDir' = [op |-> what, arg |-> dstPath, err |-> "nil",
                                   obj |-> SetMetadataFromEntry(dstObj,
                                                                done.entry),
                                   calls |-> <<what>>,
                                        ok |-> TRUE, read |-> answer]
                    /\ dropbox' = done.tree
  /\ UNCHANGED <<root, slashRoot, slashRootSlash, limited>>

\* Fs.Copy(src, remote)
FsCopy(isObject, srcPath, remote, transportFails) ==
  ServerSide("Copy", isObject, srcPath, remote, transportFails)

\* Fs.Move(src, remote)
FsMove(isObject, srcPath, remote, transportFails) ==
  ServerSide("Move", isObject, srcPath, remote, transportFails)

\* the test of DirMove that does not look at entry.IsDeleted
DestinationExists_IgnoreDeleted(md) == md.err = "nil"

\* the test of DirMove for a destination that exists
DestinationExists(md) == md.err = "nil" /\ ~md.entry.isDeleted

\* Fs.DirMove(src)
FsDirMove(isFs, srcSlashRoot, transportFails, moveFails) ==
  /\ DirCall
  /\ IF ~isFs
       THEN /\ lastDir' = [op |-> "DirMove", arg |-> slashRoot,
                           err |-> "ErrorCantDirMove", obj |-> NilObject,
                           calls |-> <<>>,
                                        ok |-> FALSE, read |-> NoRead]
            /\ UNCHANGED dropbox
       ELSE
         LET md == DbMetadata(dropbox, slashRoot, transportFails)
             moved == DbMove(dropbox, srcSlashRoot, slashRoot, moveFails)
         IN  IF DestinationExists(md)
               THEN /\ lastDir' = [op |-> "DirMove", arg |-> slashRoot,
                                   err |-> "ErrorDirExists",
                                   obj |-> NilObject,
                                   calls |-> <<"Metadata">>,
                                        ok |-> TRUE, read |-> md]
                    /\ UNCHANGED dropbox
               ELSE /\ lastDir' = [op |-> "DirMove", arg |-> slashRoot,
                                   err |-> IF moved.err # "nil"
                                             THEN "MoveDir failed" ELSE "nil",
                                   obj |-> NilObject,
                                   calls |-> <<"Metadata", "Move">>,
                                        ok |-> TRUE, read |-> md]
                    /\ dropbox' = moved.tree
  /\ UNCHANGED <<root, slashRoot, slashRootSlash, limited>>

(***************************************************************************)
(* fs.NewFs: from a path to a backend.                                     *)
(***************************************************************************)
\* calls of fs.NewFs in one run
MaxNewFs == 2

\* \w of the regexp and the class [\w_ -], over the alphabet of the model
WordChars == {"a", "b", "c", "C", "d", "l", "o", "r", "0", "_"}
NameChars == WordChars \cup {"_", " ", "-"}

\* the letters a drive of Windows can have
DriveLetters == {"a", "b", "c", "C", "d", "l", "o", "r"}

\* matcher.FindStringSubmatch(path) for ^([\w_ -]+):(.*)$ : the name ends at
\* the first colon, and the dot matches no newline
FindStringSubmatch(path) ==
  LET colons == {i \in 1..Len(path) : path[i] = ":"}
      first == CHOOSE i \in colons : \A j \in colons : i <= j
  IN  IF colons = {} THEN [nil |-> TRUE, name |-> <<>>, rest |-> <<>>]
      ELSE IF \/ first = 1
              \/ \E k \in 1..(first - 1) : path[k] \notin NameChars
              \/ \E k \in (first + 1)..Len(path) : path[k] = "\n"
        THEN [nil |-> TRUE, name |-> <<>>, rest |-> <<>>]
      ELSE [nil |-> FALSE, name |-> SubSeq(path, 1, first - 1),
            rest |-> SubSeq(path, first + 1, Len(path))]

\* isDriveLetter: never outside Windows, one letter on Windows
IsDriveLetter(name) ==
  windows /\ Len(name) = 1 /\ name[1] \in DriveLetters

\* filepath.ToSlash: the separator of Windows becomes a slash
ToSlash(s) ==
  IF windows THEN [i \in 1..Len(s) |-> IF s[i] = "\\" THEN "/" ELSE s[i]]
  ELSE s

\* GetValue that takes a section without a type for a local one
GetValue_Default(section) ==
  IF section \in DOMAIN configFile
    THEN [err |-> "nil", value |-> configFile[section]]
    ELSE [err |-> "nil", value |-> "local"]

\* ConfigFile.GetValue(section, "type")
GetValue(section) ==
  IF section \in DOMAIN configFile
    THEN [err |-> "nil", value |-> configFile[section]]
    ELSE [err |-> "not found", value |-> ""]

\* Find that returns the first backend of the registry
Find_First(name) == [err |-> "nil", info |-> fsRegistry[1]]

\* Find(name): the Info of the registry with that name
Find(name) ==
  IF \E i \in 1..Len(fsRegistry) : fsRegistry[i] = name
    THEN [err |-> "nil", info |-> name]
    ELSE [err |-> "Didn't find filing system", info |-> ""]

\* the name "local" of the default section
LocalName == <<"l", "o", "c", "a", "l">>

\* the paths fs.NewFs is called with
NewFsPaths ==
  { <<"r", ":", "a">>,
    <<"r", "0", ":", "a", "\\", "b">>,
    <<"r", "0", ":", "a", "\n", "b">>,
    <<"r", "0", ":", "a", ":", "b">>,
    <<"r", "0", ":">>,
    <<"o", "l", "d", ":", "a">>,
    <<"b", "a", "d", ":", "a">>,
    <<"C", ":", "\\", "a">>,
    <<"a", "/", "b">>,
    <<"a", "/", "b", ":", "c">>,
    <<":", "a">>,
    <<"a", "\\", "b">>,
    <<"d", " ", "-", "0", ":", "a">> }

\* the config files a run starts with: section r0 is a dropbox remote, old
\* is of a type that is not registered, r and "d -0" may be remotes or
\* missing, bad has no type
ConfigFiles ==
  LET base == (<<"r", "0">> :> "dropbox") @@ (<<"o", "l", "d">> :> "s3")
  IN  { base,
        base @@ (<<"r">> :> "dropbox"),
        base @@ (<<"d", " ", "-", "0">> :> "local") }

Registries == { <<"local">>, <<"local", "dropbox">> }

NoNewFs == [path |-> <<>>, err |-> "nil", called |-> FALSE, backend |-> "",
            configName |-> <<>>, fsPath |-> <<>>]

\* nothing has called fs.NewFs
CfgStart(w, cfg, registry) ==
  /\ windows = w
  /\ configFile = cfg
  /\ fsRegistry = registry
  /\ newFsCalls = 0
  /\ lastNewFs = NoNewFs

\* fs.NewFs(path); backendFails: the NewFs of the backend returns an error
NewFs(path, backendFails) ==
  /\ newFsCalls < MaxNewFs
  /\ newFsCalls' = newFsCalls + 1
  /\ LET parts == FindStringSubmatch(path)
         remote == ~parts.nil /\ ~IsDriveLetter(parts.name)
         configName == IF remote THEN parts.name ELSE LocalName
         fsPath == IF remote THEN parts.rest ELSE path
         type == IF remote THEN GetValue(configName)
                 ELSE [err |-> "nil", value |-> "local"]
         found == Find(type.value)
     IN  IF type.err # "nil"
           THEN lastNewFs' = [path |-> path,
                              err |-> "ErrorNotFoundInConfigFile",
                              called |-> FALSE, backend |-> "",
                              configName |-> <<>>, fsPath |-> <<>>]
         ELSE IF found.err # "nil"
           THEN lastNewFs' = [path |-> path, err |-> found.err,
                              called |-> FALSE, backend |-> "",
                              configName |-> <<>>, fsPath |-> <<>>]
         ELSE lastNewFs' = [path |-> path,
                            err |-> IF backendFails THEN "backend" ELSE "nil",
                            called |-> TRUE, backend |-> found.info,
                            configName |-> configName,
                            fsPath |-> ToSlash(fsPath)]
  /\ UNCHANGED <<windows, configFile, fsRegistry>>

\* a build for Linux, an empty config file, the local backend registered
CfgIdle == CfgStart(FALSE, <<>>, <<"local">>)

\* one listOpts shared by concurrent producers and consumers
Init ==
  LOInit /\ FsInit(<<>>) /\ ListStart /\ StoreInit /\ DirStart(<<>>) /\ CfgIdle

Next ==
  LONext /\ UNCHANGED <<getDone, fsvars, listvars, ldvars, objvars, dirvars,
                       cfgvars>>

Spec == Init /\ [][Next]_vars

\* the listing when the consumer starts: nothing added yet, or the objects
\* channel filled by Add calls that have returned false
LiveInit ==
  /\ \E n \in {0, Buffer} : LOStart([i \in 1..n |-> "o1"])
  /\ FsInit(<<>>)
  /\ ListStart
  /\ StoreInit
  /\ DirStart(<<>>)
  /\ CfgIdle

\* the listing with a single consumer: only one goroutine calls Get
OneConsumer == "g1"

OneNext == Next /\ \A c \in Consumers \ {OneConsumer} : pc'[c] = "idle"

OneSpec == Init /\ [][OneNext]_vars

LiveSpec == LiveInit /\ [][LiveNext]_vars /\ Fairness

ListInit ==
  /\ LOInit
  /\ \E r \in Roots : FsInit(r)
  /\ ListStart
  /\ StoreInit
  /\ DirStart(<<>>)
  /\ CfgIdle

\* what a step of the listing leaves alone
ListFrame ==
  UNCHANGED <<lovars, root, slashRoot, slashRootSlash, ldvars, objvars,
              dirvars, cfgvars>>

ListNext ==
  \/ ListDeltaError /\ ListFrame
  \/ \E reset \in BOOLEAN, hasMore \in BOOLEAN, newCursor \in Cursors,
        n \in 0..MaxEntries :
          ListDeltaPage(reset, hasMore, newCursor, n) /\ ListFrame
  \/ \E entry \in Entries : ListEntry(entry) /\ ListFrame
  \/ ListSend /\ ListFrame
  \/ ListPageEnd /\ ListFrame
  \/ ListWalkStart /\ ListFrame
  \/ \E item \in walkTodo : ListWalkItem(item) /\ ListFrame
  \/ ListWalkEnd /\ ListFrame
  \/ ListClose /\ ListFrame
  \/ ConsumerReceive /\ ListFrame
  \/ ConsumerStop /\ ListFrame

\* a Dropbox listing and its consumer
ListSpec == ListInit /\ [][ListNext]_vars

\* a listing whose consumer keeps receiving; the goroutine started by
\* Fs.List runs whenever it can, and the backend answers at most MaxPages
\* pages before a page with HasMore false or an error
ListLiveNext ==
  \/ ListerStep /\ ListFrame
  \/ ConsumerReceive /\ ListFrame

ListLiveSpec ==
  /\ ListInit
  /\ [][ListLiveNext]_vars
  /\ WF_vars(ListerStep /\ ListFrame)
  /\ WF_vars(ConsumerReceive /\ ListFrame)

(***************************************************************************)
(* Fs.ListDir: the directories of the root.                                *)
(***************************************************************************)
\* the Contents a Metadata call of the root may answer with
DirContents ==
  {<<>>} \cup
  UNION {[1..n -> Entries \ {NilEntry}] : n \in 1..MaxContents}

\* the fs.Dir sent for a directory entry
DirOf(name, entry) == [name |-> name, info |-> entry, count |-> -1]

\* what a step of ListDir leaves alone
ListDirFrame ==
  UNCHANGED <<lovars, root, slashRoot, slashRootSlash, listvars, objvars,
              dirvars, cfgvars>>

\* Fs.ListDir makes the channel and starts the goroutine
ListDirCall ==
  /\ ldpc = "idle"
  /\ ldpc' = "metadata"
  /\ UNCHANGED <<statsErrors, ldContents, dirOut, dirOutClosed>>

\* a failed Metadata call that is not counted
ListDirMetadata_Uncounted(fails, contents) ==
  /\ ldpc = "metadata"
  /\ ldpc' = IF fails THEN "failed" ELSE "contents"
  /\ ldContents' = IF fails THEN <<>> ELSE contents
  /\ UNCHANGED <<statsErrors, dirOut, dirOutClosed>>

\* f.db.Metadata(f.root, true, ...) and the test of err
ListDirMetadata(fails, contents) ==
  /\ ldpc = "metadata"
  /\ IF fails
       THEN /\ statsErrors' = statsErrors + 1
            /\ ldpc' = "failed"
            /\ ldContents' = <<>>
       ELSE /\ ldpc' = "contents"
            /\ ldContents' = contents
            /\ UNCHANGED statsErrors
  /\ UNCHANGED <<dirOut, dirOutClosed>>

\* one turn of the loop over entry.Contents; the send waits for room
ListDirEntry ==
  /\ ldpc = "contents"
  /\ ldContents # <<>>
  /\ ldContents' = Tail(ldContents)
  /\ LET entry == Head(ldContents) IN
     IF ~entry.isDir
       THEN UNCHANGED <<statsErrors, dirOut>>
       ELSE LET name == StripRoot(entry.path)
            IN  IF ~name.ok
                  THEN /\ statsErrors' = statsErrors + name.errs
                       /\ UNCHANGED dirOut
                  ELSE /\ Len(dirOut) < Checkers
                       /\ dirOut' = Append(dirOut, DirOf(name.path, entry))
                       /\ UNCHANGED statsErrors
  /\ UNCHANGED <<ldpc, dirOutClosed>>

\* defer close(out), after the loop or after the error
ListDirClose ==
  /\ \/ ldpc = "failed"
     \/ ldpc = "contents" /\ ldContents = <<>>
  /\ dirOutClosed' = TRUE
  /\ ldpc' = "done"
  /\ UNCHANGED <<statsErrors, ldContents, dirOut>>

\* the consumer of ListDir receives a Dir
DirReceive ==
  /\ dirOut # <<>>
  /\ dirOut' = Tail(dirOut)
  /\ UNCHANGED <<statsErrors, ldpc, ldContents, dirOutClosed>>

\* the Fs lists its objects, or else its directories
ListingNext ==
  \/ ListNext /\ ldpc = "idle"
  \/ ListDirCall /\ lpc = "delta" /\ deltaCalls = 0 /\ ListDirFrame
  \/ \E fails \in BOOLEAN, contents \in DirContents :
       ListDirMetadata(fails, contents) /\ ListDirFrame
  \/ ListDirEntry /\ ListDirFrame
  \/ ListDirClose /\ ListDirFrame
  \/ DirReceive /\ ListDirFrame

ListingSpec == ListInit /\ [][ListingNext]_vars


\* what a call on the Fs leaves alone
ObjFrame ==
  UNCHANGED <<lovars, root, slashRoot, slashRootSlash, listvars, ldvars, dirvars,
              cfgvars>>

ObjInit ==
  /\ LOInit
  /\ \E r \in Roots : FsInit(r)
  /\ ListStart
  /\ StoreInit
  /\ DirStart(<<>>)
  /\ CfgIdle

ObjNext ==
  \/ \E remote \in Remotes, transportFails \in BOOLEAN :
       FsNewFsObject(remote, transportFails) /\ ObjFrame
  \/ \E size \in Sizes, uploadFails \in BOOLEAN :
       ObjectUpdate(size, uploadFails) /\ ObjFrame
  \/ \E remote \in Remotes, size \in Sizes, uploadFails \in BOOLEAN :
       FsPut(remote, size, uploadFails) /\ ObjFrame
  \/ ObjectStorable /\ ObjFrame

\* the calls on a Dropbox Fs and its Objects
ObjSpec == ObjInit /\ [][ObjNext]_vars

\* what a call on the directory of the Fs leaves alone
DirFrame == UNCHANGED <<lovars, listvars, ldvars, objvars, cfgvars>>

DirInit ==
  /\ LOInit
  /\ FsInit(<<>>)
  /\ ListStart
  /\ StoreInit
  /\ \E t \in InitialTrees : DirStart(t)
  /\ CfgIdle

DirNext ==
  \/ \E r \in NewFsRoots, setupFails \in BOOLEAN, transportFails1 \in BOOLEAN,
        transportFails2 \in BOOLEAN :
       DropboxNewFs(r, setupFails, transportFails1, transportFails2) /\ DirFrame
  \/ \E transportFails \in BOOLEAN, createFails \in BOOLEAN :
       FsMkdir(transportFails, createFails) /\ DirFrame
  \/ \E transportFails \in BOOLEAN, deleteFails \in BOOLEAN :
       FsRmdir(transportFails, deleteFails) /\ DirFrame
  \/ \E isObject \in BOOLEAN, srcPath \in SrcPaths, remote \in DstRemotes,
        transportFails \in BOOLEAN :
       FsCopy(isObject, srcPath, remote, transportFails) /\ DirFrame
  \/ \E isObject \in BOOLEAN, srcPath \in SrcPaths, remote \in DstRemotes,
        transportFails \in BOOLEAN :
       FsMove(isObject, srcPath, remote, transportFails) /\ DirFrame
  \/ \E isFs \in BOOLEAN, srcSlashRoot \in SrcRoots, transportFails \in BOOLEAN,
        moveFails \in BOOLEAN :
       FsDirMove(isFs, srcSlashRoot, transportFails, moveFails) /\ DirFrame

\* the calls on the directory of a Dropbox Fs
DirSpec == DirInit /\ [][DirNext]_vars

(***************************************************************************)
(* Fs.Rmdir step by step, with uploads of Put and Update by other          *)
(* goroutines into the same root.                                          *)
(***************************************************************************)
\* the roots of the Fs: an empty (or deleted, or absent) directory and one
\* that holds a file
RmdirRoots == {<<"A">>, <<"D">>}

\* the names uploaded into the root
UploadRemotes == {<<"F">>, <<"T", "h", "u", "m", "b", "s", ".", "d", "b">>}

\* Fs.Rmdir up to its call of f.Purge: the read of the root and the test of
\* entry.Contents
RmdirRead(transportFails) ==
  /\ lastDir.op # "Rmdir:Purge"
  /\ DirCall
  /\ LET md == DbMetadata(dropbox, slashRoot, transportFails)
         err == IF md.err # "nil" THEN md.err
                ELSE IF Cardinality(Contents(dropbox, slashRoot)) # 0
                  THEN "Directory not empty"
                ELSE "nil"
     IN  lastDir' = [op |-> IF err = "nil" THEN "Rmdir:Purge" ELSE "Rmdir",
                     arg |-> slashRoot, err |-> err, obj |-> NilObject,
                     calls |-> <<"Metadata">>, ok |-> TRUE, read |-> md]
  /\ UNCHANGED <<dropbox, root, slashRoot, slashRootSlash, limited>>

\* return f.Purge(): f.db.Delete(f.slashRoot)
RmdirPurge(deleteFails) ==
  /\ lastDir.op = "Rmdir:Purge"
  /\ LET purged == Purge(dropbox, deleteFails)
     IN  /\ lastDir' = [lastDir EXCEPT !.op = "Rmdir", !.err = purged.err,
                                       !.calls = <<"Metadata", "Delete">>]
         /\ dropbox' = purged.tree
  /\ UNCHANGED <<dirOps, statsErrors, root, slashRoot, slashRootSlash, limited>>

\* Object.Update called by Put or on an Object of the Fs, in another
\* goroutine: o.fs.db.UploadByChunk stores the file unless the name is ignored
RmdirUpload(remote, size, uploadFails) ==
  /\ DirCall
  /\ dropbox' = IF uploadFails \/ IgnoredFilesMatch(slashRootSlash \o remote)
                  THEN dropbox
                  ELSE StoreWith(dropbox, slashRootSlash \o remote,
                                 FileEntry(size))
  /\ UNCHANGED <<lastDir, root, slashRoot, slashRootSlash, limited>>

RmdirInit ==
  /\ LOInit
  /\ \E r \in RmdirRoots : FsInit(r)
  /\ ListStart
  /\ StoreInit
  /\ \E t \in InitialTrees : DirStart(t)
  /\ CfgIdle

RmdirNext ==
  \/ \E transportFails \in BOOLEAN : RmdirRead(transportFails) /\ DirFrame
  \/ \E deleteFails \in BOOLEAN : RmdirPurge(deleteFails) /\ DirFrame
  \/ \E remote \in UploadRemotes, size \in Sizes, uploadFails \in BOOLEAN :
       RmdirUpload(remote, size, uploadFails) /\ DirFrame

RmdirSpec == RmdirInit /\ [][RmdirNext]_vars

CfgInit ==
  /\ LOInit
  /\ FsInit(<<>>)
  /\ ListStart
  /\ StoreInit
  /\ DirStart(<<>>)
  /\ \E w \in BOOLEAN, cfg \in ConfigFiles, registry \in Registries :
       CfgStart(w, cfg, registry)

CfgNext ==
  \E path \in NewFsPaths, backendFails \in BOOLEAN :
    /\ NewFs(path, backendFails)
    /\ UNCHANGED <<lovars, fsvars, listvars, ldvars, objvars, dirvars>>

\* the calls of fs.NewFs under one config file and one registry
CfgSpec == CfgInit /\ [][CfgNext]_vars

(***************************************************************************)
(* Properties of the Dropbox listing.                                      *)
(***************************************************************************)

\* C5: when the consumer of the listing has stopped receiving, the goroutine
\* started by Fs.List is never left blocked: it has returned or it can take
\* a step.
C5_ProducerReturnsAfterAbort ==
  consumerStopped => (lpc = "done" \/ ENABLED ListerStep)

\* C6 as stated: an entry whose path is not under the root aborts the
\* listing: the error counter is incremented and no entry that comes after it
\* in the delta stream is emitted.
C6_NotUnderRootAborts ==
  /\ stripFails > 0 => statsErrors > 0
  /\ \A i \in 1..Len(emitted) : ~emitted[i].info.late

\* C6 amended: an entry whose path stripRoot finds not to lie under the root
\* is skipped with an error: the error counter is incremented by one, nothing
\* is emitted for it and the loop goes on where it was; later entries of the
\* delta stream are still processed.
C6_NotUnderRootSkipped ==
  [][stripFails' # stripFails =>
       /\ statsErrors' = statsErrors + 1
       /\ emitted' = emitted
       /\ sending' = sending
       /\ lpc' = lpc]_vars

\* C6 witness: an object was emitted for an entry that came after an entry
\* refused by stripRoot.
C6_EmittedAfterRefusal ==
  /\ stripFails > 0
  /\ \E i \in 1..Len(emitted) : emitted[i].info.late

\* the delta loop has ended
LoopEnded == lpc \in {"walk", "walking", "sendWalk", "close", "done"}

\* C7: a page with Reset aborts the listing exactly when it was fetched with
\* a non-empty cursor: then the error counter is incremented once, none of its
\* entries is processed and no further page is requested; otherwise the page
\* is no error and its entries are processed.
C7_ResetAbortsMidStream ==
  [][/\ (deltaCalls' # deltaCalls /\ ~page'.err) =>
          IF page'.reset /\ cursor # ""
            THEN /\ statsErrors' = statsErrors + 1
                 /\ LoopEnded'
            ELSE /\ statsErrors' = statsErrors
                 /\ lpc' = "entries"
     /\ LoopEnded => /\ deltaCalls' = deltaCalls
                     /\ processed' = processed
     /\ processed' # processed => (lpc = "entries" /\ page.n > 0)]_vars

\* C7 witness: a page fetched with a non-empty cursor reported a reset and the
\* listing ended with one error, the entries of that page unprocessed.
C7_MidStreamReset ==
  /\ page.reset /\ cursor # "" /\ page.n > 0
  /\ lpc = "walk"
  /\ statsErrors = 1

C9_NotFoundDistinguished ==
  \A a, b \in nfoResults :
    (a.cause = "notfound" /\ b.cause = "transport") => a.result # b.result

\* C9 amended: NewFsObject returns nil exactly when the metadata read fails,
\* whether the object is missing or the transport failed, and an Object
\* with its metadata set otherwise.
C9_NilOnAnyReadFailure ==
  \A r \in nfoResults :
    /\ (r.cause # "nil") <=> r.result.nil
    /\ (r.cause = "nil") => r.result.hasMetadata

\* C9 witness: NewFsObject has been called on a missing object and under a
\* transport failure.
C9_BothFailuresSeen ==
  /\ \E r \in nfoResults : r.cause = "notfound"
  /\ \E r \in nfoResults : r.cause = "transport"

\* the names Dropbox ignores
IgnoredNames ==
  { <<"d", "e", "s", "k", "t", "o", "p", ".", "i", "n", "i">>,
    <<"t", "h", "u", "m", "b", "s", ".", "d", "b">>,
    <<".", "d", "s", "_", "s", "t", "o", "r", "e">>,
    <<"i", "c", "o", "n", "\r">>,
    <<".", "d", "r", "o", "p", "b", "o", "x">>,
    <<".", "d", "r", "o", "p", "b", "o", "x", ".", "a", "t", "t", "r">> }

\* the last component of the path is an ignored name, in any case
IsIgnoredName(path) == ToLower(LastComponent(path)) \in IgnoredNames

\* C10: a Put or an Update of an object whose name is ignored by Dropbox is
\* skipped without failing: no upload reaches the store, the call returns a
\* nil error and the error counter stays as it was.
C10_IgnoredUploadSkipped ==
  [][(ops' # ops /\ lastOp'.op \in {"Put", "Update"}
        /\ IsIgnoredName(lastOp'.path)) =>
       /\ uploadCalls' = uploadCalls
       /\ db' = db
       /\ lastOp'.err = "nil"
       /\ statsErrors' = statsErrors]_vars

\* C10 witness: after an upload that reached the store, a Put of an ignored
\* name has returned nil.
C10_IgnoredPutSkipped ==
  /\ uploadCalls > 0
  /\ lastOp.op = "Put"
  /\ IsIgnoredName(lastOp.path)
  /\ lastOp.err = "nil"

\* C11 as stated: Storable is false for an object whose name is one of the
\* ignored names, the names Update does not upload, and true for every other
\* object.
C11_StorableFalseForIgnored ==
  lastOp.op = "Storable" =>
    (storable = "true" <=> ~IsIgnoredName(lastOp.path))

\* C11 amended: Storable is true for every Dropbox object, those with an
\* ignored name included; it is Update that skips the ignored names.
C11_StorableAlwaysTrue ==
  lastOp.op = "Storable" => storable = "true"

\* C11 witness: Storable has been called on an object with an ignored name
\* and has returned true.
C11_StorableOnIgnoredName ==
  /\ lastOp.op = "Storable"
  /\ IsIgnoredName(lastOp.path)
  /\ storable = "true"

IsLiveDir(t, path) ==
  path = <<"/">> \/ (Exists(t, path) /\ t[ToLower(path)].isDir)

IsLiveFile(t, path) ==
  path # <<"/">> /\ Exists(t, path) /\ ~t[ToLower(path)].isDir

\* Dropbox holds a live entry below the path
HasEntries(t, path) ==
  LET prefix == IF path = <<"/">> THEN path ELSE ToLower(path) \o <<"/">>
  IN  \E q \in DOMAIN t :
        ~t[q].isDeleted /\ q # prefix /\ HasPrefix(q, prefix)

\* the backend call was made by the last call on the Fs
Called(last, call) == \E i \in 1..Len(last.calls) : last.calls[i] = call

\* a step that is a call of the operation on the Fs
DirStep(op) == dirOps' # dirOps /\ lastDir'.op = op

C14_RmdirOnlyExistingEmpty ==
  [][DirStep("Rmdir") =>
       /\ lastDir'.read.err # "nil" =>
            /\ lastDir'.err = lastDir'.read.err
            /\ lastDir'.err # "Directory not empty"
            /\ dropbox' = dropbox
            /\ ~Called(lastDir', "Delete")
       /\ (lastDir'.read.err = "nil" /\ HasEntries(dropbox, slashRoot)) =>
            /\ lastDir'.err = "Directory not empty"
            /\ dropbox' = dropbox
            /\ ~Called(lastDir', "Delete")
       /\ Called(lastDir', "Delete") =>
            /\ Exists(dropbox, slashRoot)
            /\ ~HasEntries(dropbox, slashRoot)]_vars

\* C14 amended: Rmdir returns distinct errors: the error of the read when
\* the metadata of the root cannot be read, "Directory not empty" when the
\* read reports at least one entry, and it deletes nothing in both cases;
\* it issues the delete whenever the read succeeds and reports no contents,
\* which is so for an empty root that exists and also for a root that
\* Dropbox reports as a deleted entry.
C14_RmdirWhenNoContents ==
  [][DirStep("Rmdir") =>
       /\ lastDir'.read.err # "nil" =>
            /\ lastDir'.err = lastDir'.read.err
            /\ lastDir'.err # "Directory not empty"
            /\ dropbox' = dropbox
            /\ ~Called(lastDir', "Delete")
       /\ (lastDir'.read.err = "nil" /\ HasEntries(dropbox, slashRoot)) =>
            /\ lastDir'.err = "Directory not empty"
            /\ dropbox' = dropbox
            /\ ~Called(lastDir', "Delete")
       /\ Called(lastDir', "Delete") <=>
            /\ lastDir'.read.err = "nil"
            /\ ~HasEntries(dropbox, slashRoot)
       /\ dropbox' # dropbox =>
            /\ Called(lastDir', "Delete")
            /\ lastDir'.err = "nil"
            /\ ~Exists(dropbox', slashRoot)]_vars

\* C14 witness: Rmdir has refused a root that is not empty, and the tree
\* holds an empty directory that a Rmdir could delete.
C14_RmdirNotEmpty ==
  /\ lastDir.op = "Rmdir"
  /\ lastDir.err = "Directory not empty"
  /\ slashRoot = <<"/", "d">>
  /\ IsLiveDir(dropbox, <<"/", "a">>)

\* C15: NewFs given a root that names an existing entry that is not a
\* directory returns a limited Fs whose root is the parent directory of the
\* entry and which exposes exactly that one object, its remote the base name
\* of the entry; given a root that names a directory or that cannot be read
\* it returns the Fs itself with the root as given.
C15_LimitedToTheOneObject ==
  [][(DirStep("NewFs") /\ lastDir'.err = "nil") =>
       LET given == TrimSlashes(lastDir'.arg)
           read == lastDir'.read
       IN  /\ (read.err = "nil" /\ IsLiveFile(dropbox, <<"/">> \o given)) =>
                /\ limited'.is
                /\ root' = (IF PathDir(given) = <<".">> THEN <<>>
                             ELSE PathDir(given))
                /\ Len(limited'.objects) = 1
                /\ ~limited'.objects[1].nil
                /\ limited'.objects[1].remote = PathBase(given)
           /\ (read.err # "nil" \/ IsLiveDir(dropbox, <<"/">> \o given)) =>
                /\ ~limited'.is
                /\ root' = given]_vars

\* C16: Copy, and Move, called with a source that is not a Dropbox Object
\* returns ErrorCantCopy, ErrorCantMove, with a nil object and makes no
\* backend call; when the backend call fails it returns a nil object and an
\* error; only on success does it return a destination Object, and that
\* Object carries the metadata of the entry the backend returned.
C16_ServerSideCopyMove ==
  [][(DirStep("Copy") \/ DirStep("Move")) =>
       LET last == lastDir'
       IN  /\ ~last.ok =>
                /\ last.err = (IF last.op = "Copy" THEN "ErrorCantCopy"
                                ELSE "ErrorCantMove")
                /\ last.obj.nil
                /\ last.calls = <<>>
                /\ dropbox' = dropbox
           /\ last.ok => last.calls = <<last.op>>
           /\ (last.ok /\ last.read.err # "nil") =>
                /\ last.obj.nil
                /\ last.err \in {"Copy failed", "Move failed"}
           /\ ~last.obj.nil <=> (last.ok /\ last.read.err = "nil")
           /\ ~last.obj.nil =>
                /\ last.err = "nil"
                /\ last.obj.hasMetadata
                /\ last.obj.bytes = last.read.entry.bytes
                /\ last.obj.modTime = last.read.entry.mtime
                /\ RemotePath(last.obj) = last.arg
                /\ dropbox'[ToLower(last.arg)] = last.read.entry]_vars

\* C16 witness: a Copy has returned a destination Object with the size of
\* the entry, and the call before it was refused.
C16_CopiedAfterRefusal ==
  /\ lastDir.op = "Copy"
  /\ lastDir.err = "nil"
  /\ lastDir.obj.bytes > 0
  /\ dirOps > 1

NewFsStep == newFsCalls' # newFsCalls

\* the path has the form name:rest with a name of the class [\w_ -]+ ; the
\* name and the rest of such a path
HasNameAndRest(path) ==
  \E i \in 1..Len(path) :
    /\ i > 1
    /\ path[i] = ":"
    /\ \A k \in 1..(i - 1) : path[k] \in NameChars

NameOf(path) ==
  SubSeq(path, 1, (CHOOSE i \in 1..Len(path) : path[i] = ":"
                     /\ \A k \in 1..(i - 1) : path[k] # ":") - 1)

RestOf(path) == SliceFrom(path, Len(NameOf(path)) + 1)

\* the backend with that name is registered
Registered(name) == \E i \in 1..Len(fsRegistry) : fsRegistry[i] = name

\* C18 as stated: a path of the form name:rest, its name not a drive letter,
\* resolves to the registered backend whose type the config file records for
\* the name, constructed with (name, rest); every other path resolves to the
\* local backend, constructed with "local" and the whole path.
C18_ResolvesNameAndRest ==
  [][NewFsStep =>
       LET path == lastNewFs'.path
           named == HasNameAndRest(path) /\ ~IsDriveLetter(NameOf(path))
       IN  /\ (/\ named
               /\ NameOf(path) \in DOMAIN configFile
               /\ Registered(configFile[NameOf(path)])) =>
                /\ lastNewFs'.called
                /\ lastNewFs'.backend = configFile[NameOf(path)]
                /\ lastNewFs'.configName = NameOf(path)
                /\ lastNewFs'.fsPath = RestOf(path)
           /\ ~named =>
                /\ lastNewFs'.called
                /\ lastNewFs'.backend = "local"
                /\ lastNewFs'.configName = LocalName
                /\ lastNewFs'.fsPath = path]_vars

\* C18 amended: a path of the form name:rest, its name of the class [\w_ -]+
\* and not a drive letter and its rest without a newline, resolves to the
\* registered backend whose type the config file records for the name,
\* constructed with the name and with the rest in which the native
\* separators are changed to slashes; every other path, a path whose rest
\* holds a newline included, resolves to the local backend, constructed with
\* "local" and the whole path with its separators changed likewise.
C18_ResolvesWithSlashes ==
  [][NewFsStep =>
       LET path == lastNewFs'.path
           named == /\ HasNameAndRest(path)
                    /\ ~IsDriveLetter(NameOf(path))
                    /\ \A k \in 1..Len(RestOf(path)) : RestOf(path)[k] # "\n"
       IN  /\ (/\ named
               /\ NameOf(path) \in DOMAIN configFile
               /\ Registered(configFile[NameOf(path)])) =>
                /\ lastNewFs'.called
                /\ lastNewFs'.backend = configFile[NameOf(path)]
                /\ lastNewFs'.configName = NameOf(path)
                /\ lastNewFs'.fsPath = ToSlash(RestOf(path))
           /\ ~named =>
                /\ lastNewFs'.called
                /\ lastNewFs'.backend = "local"
                /\ lastNewFs'.configName = LocalName
                /\ lastNewFs'.fsPath = ToSlash(path)]_vars

\* C18 witness: on Windows a remote path with a backslash has been resolved
\* to the dropbox backend with the separator changed.
C18_RemoteWithBackslash ==
  /\ windows
  /\ lastNewFs.called
  /\ lastNewFs.backend = "dropbox"
  /\ lastNewFs.path = <<"r", "0", ":", "a", "\\", "b">>
  /\ lastNewFs.fsPath = <<"a", "/", "b">>

C20_AddEnqueuesOrAborts ==
  [][\A p \in Producers :
       ((InAdd(p) \/ InAddDir(p)) /\ pc'[p] = "idle") =>
         /\ ret'.proc = p /\ ret'.kind \in {"true", "false"}
         /\ ret'.op = IF InAdd(p) THEN "Add" ELSE "AddDir"
         /\ ret'.kind = "true" =>
              (abort /\ abort' /\ objects' = objects /\ dirs' = dirs)
         /\ (ret'.kind = "false" /\ InAdd(p)) =>
              (objects' = objects \o <<arg[p]>> /\ dirs' = dirs)
         /\ (ret'.kind = "false" /\ InAddDir(p)) =>
              (dirs' = dirs \o <<arg[p]>> /\ objects' = objects)]_vars

\* C20 witness: with the abort channel closed, an AddDir call has returned
\* false and its directory is on the dirs channel.
C20_AddDirSentAfterAbort ==
  /\ abort
  /\ ret.op = "AddDir" /\ ret.kind = "false"
  /\ Len(dirs) > 0 /\ dirs[Len(dirs)] = ret.v

\* C21: a producer that was suspended in Add or AddDir when a Get closed the
\* abort channel eventually returns true from that call (a program stopped
\* by a send on a channel that Finished closed is left aside).
C21_BlockedReleasedByAbort ==
  \A p \in Producers :
    (pc[p] \in {"AddWoken", "AddDirWoken"})
      ~> \/ pc[p] = "idle" /\ ret.proc = p /\ ret.kind = "true"
         \/ panicked /\ closeAbortCount < 2

\* C26: every SetError call with a non-nil error returns, with consumers that
\* call Get until they have received an error or (nil, nil, nil) (a program
\* that has panicked is left aside).
C26_SetErrorReturns ==
  \A p \in Producers : (pc[p] = "SetError") ~> (pc[p] = "idle" \/ panicked)

\* C22: the objects channel and the dirs channel never hold more than buffer
\* items (the items accepted by Add or AddDir and not yet returned by Get);
\* and an Add (resp. AddDir) call that finds its channel full completes only
\* by returning true with the abort channel closed: until then it waits for
\* a Get to remove an item.
C22_AtMostBufferPending ==
  /\ [](Len(objects) <= Buffer /\ Len(dirs) <= Buffer)
  /\ [][\A p \in Producers :
          /\ (InAdd(p) /\ pc'[p] = "idle" /\ Len(objects) = Buffer)
               => (abort /\ ret'.kind = "true" /\ objects' = objects)
          /\ (InAddDir(p) /\ pc'[p] = "idle" /\ Len(dirs) = Buffer)
               => (abort /\ ret'.kind = "true" /\ dirs' = dirs)]_vars

\* C22 witness: with the objects channel full and the listing not aborted, an
\* Add call is suspended in its select.
C22_AddWaitsForRoom ==
  /\ ~abort
  /\ Len(objects) = Buffer
  /\ \E p \in Producers : pc[p] = "AddParked"

\* C25: with a single consumer, once a Get call has returned an error passed
\* to SetError, every Get call that returns afterwards returns
\* ErrListAborted, whatever is buffered in the channels.
C25_AbortedAfterError ==
  [][(errsReturned # {} /\ pc[OneConsumer] # "idle" /\ pc'[OneConsumer] = "idle")
       => (ret'.op = "Get" /\ ret'.proc = OneConsumer /\ ret'.kind = "aborted")]_vars

\* C25 witness: after a Get has returned an error, a Get has returned
\* ErrListAborted while an item was still buffered.
C25_AbortedWithItemsBuffered ==
  /\ errsReturned # {}
  /\ ret.op = "Get" /\ ret.kind = "aborted" /\ ret.pend > 0

\* C27: no Add or AddDir call sends on a channel that Finished has closed:
\* the program never panics on such a send (the panic of a second
\* close(o.abort) is left aside), and a call that returns with its channel
\* closed has sent nothing.
C27_NoSendOnClosedChannel ==
  /\ [](panicked => closeAbortCount > 1)
  /\ [][\A p \in Producers :
          /\ (InAdd(p) /\ pc'[p] = "idle" /\ objectsClosed)
               => objects' = objects
          /\ (InAddDir(p) /\ pc'[p] = "idle" /\ dirsClosed)
               => dirs' = dirs]_vars

\* C28: the Delete that Rmdir issues on its root removes no stored object:
\* at the moment of the delete Dropbox holds nothing below the root, whatever
\* Put and Update calls have run since Rmdir read the root.
C28_RmdirDeletesOnlyEmptyRoot ==
  [][(lastDir.op = "Rmdir:Purge" /\ lastDir'.op = "Rmdir")
       => ~HasEntries(dropbox, slashRoot)]_vars

\* the name tree holds the case-correct name of every directory of the path
CaseKnown(tree, parentPath) ==
  \/ parentPath = <<>>
  \/ LET lower == LowerComps(parentPath)
     IN  \A k \in 1..Len(lower) :
           LET node == JoinSlash(SubSeq(lower, 1, k))
           IN  node \in DOMAIN tree.dirs /\ tree.dirs[node] # <<>>

\* the path with every directory under the name the name tree holds for it
CorrectedPath(tree, parentPath) ==
  IF parentPath = <<>> THEN <<>>
  ELSE LET lower == LowerComps(parentPath)
       IN  <<"/">> \o JoinSlash([k \in 1..Len(lower) |->
                                  tree.dirs[JoinSlash(SubSeq(lower, 1, k))]])

\* the delta loop of the listing is over
InWalk == lpc \in {"walk", "walking", "sendWalk", "close", "done"}

\* the file entries that wait to be emitted
Deferred ==
  IF lpc \in {"walking", "sendWalk", "close", "done"}
    THEN Cardinality({item \in walkTodo : item.kind = "file"})
    ELSE Cardinality(nameTree.files)

\* C23: a file entry is handed to the output in the delta loop only when the
\* name tree holds, from directory entries seen before it, the name of every
\* directory of its parent path, and then under that corrected parent path
\* and without being stored; an entry that is stored in the name tree is not
\* emitted in the delta loop, and what the final walk emits was stored in
\* the name tree and is emitted after the last delta page, with no entry
\* processed and no Delta call after the walk has begun; and the objects
\* emitted, the one being sent and the entries still waiting are never more
\* than the entries processed: no entry is emitted twice.
C23_ImmediateOrDeferredOnce ==
  /\ [](Len(emitted) + (IF sending = NoObject THEN 0 ELSE 1) + Deferred
          <= processed)
  /\ [][/\ (processed' # processed /\ lpc' = "sendEntry") =>
            LET info == sending'.info
                parent == ParentPath(info.path)
            IN  /\ CaseKnown(nameTree, parent)
                /\ sending'.remote =
                     SliceFrom(CorrectedPath(nameTree, parent) \o <<"/">>
                                 \o LastComponent(info.path),
                               Len(slashRootSlash))
                /\ nameTree' = nameTree
        /\ (nameTree'.files # nameTree.files) =>
             (~InWalk /\ lpc' = lpc /\ sending' = sending /\ emitted' = emitted)
        /\ (lpc = "walking" /\ lpc' = "sendWalk") =>
             \E f \in nameTree.files : f.entry = sending'.info
        /\ InWalk =>
             (InWalk' /\ processed' = processed /\ deltaCalls' = deltaCalls)
        /\ (emitted' # emitted) =>
             (emitted' = Append(emitted, sending) /\ sending' = NoObject)]_vars

\* C23 witness: the final walk is sending the one file entry that was stored
\* in the name tree, after an entry with a parent directory of known case
\* was emitted in the delta loop.
C23_DeferredAfterImmediate ==
  /\ lpc = "sendWalk"
  /\ Cardinality(nameTree.files) = 1
  /\ \E i \in 1..Len(emitted) : ParentPath(emitted[i].info.path) # <<>>

\* an entry path that is not a slash followed by at least one character
Malformed(path) == Len(path) <= 1 \/ path[1] # "/"

\* C24: every listing failure adds exactly one to the error counter: a
\* failed Delta call, a page with Reset fetched with a non-empty cursor, an
\* entry whose path is malformed, a path that stripRoot finds not under the
\* root (in the delta loop, in the final walk and in ListDir), and a failed
\* Metadata call of ListDir; and no step of List or ListDir makes the
\* counter smaller.
C24_FailureCountedOnce ==
  [][/\ statsErrors' >= statsErrors
     /\ (deltaCalls' # deltaCalls /\ page'.err) =>
          statsErrors' = statsErrors + 1
     /\ (deltaCalls' # deltaCalls /\ ~page'.err /\ page'.reset /\ cursor # "") =>
          statsErrors' = statsErrors + 1
     /\ \A e \in Entries \ {NilEntry} :
          (ListEntry(e) /\ Malformed(e.path)) =>
            statsErrors' = statsErrors + 1
     /\ (stripFails' # stripFails) => statsErrors' = statsErrors + 1
     /\ (ldpc = "metadata" /\ ldpc' = "failed") =>
          statsErrors' = statsErrors + 1
     /\ (ldContents' # ldContents /\ ldpc = "contents"
           /\ Head(ldContents).isDir
           /\ ~HasPrefix(ToLower(Head(ldContents).path), slashRootSlash)) =>
          statsErrors' = statsErrors + 1]_vars

\* C24 witness: a listing whose delta loop was ended by a failed Delta call
\* after a malformed entry path and a path not under the root: three
\* failures, three errors counted.
C24_ThreeFailuresCounted ==
  /\ lpc = "walk"
  /\ page.err
  /\ stripFails = 1
  /\ statsErrors = 3

\* C29: with a consumer that keeps receiving and a backend that ends the
\* delta stream, the goroutine started by Fs.List ends, whatever ended the
\* delta loop; when it has ended the channel is closed and no object is left
\* unsent; the channel is closed by one step, taken from the end of the
\* walk with nothing being sent, and after it the goroutine does nothing
\* more: no second close and no object sent after the close.
C29_ListEndsAndClosesOnce ==
  /\ <>(lpc = "done")
  /\ [](lpc = "done" => (outClosed /\ sending = NoObject))
  /\ [][/\ (outClosed' # outClosed) =>
            (~outClosed /\ lpc = "close" /\ lpc' = "done"
               /\ sending = NoObject /\ walkTodo = {})
        /\ outClosed =>
            (lpc = "done" /\ lpc' = "done" /\ emitted' = emitted
               /\ Len(out') <= Len(out))]_vars

\* C29 witness: the goroutine has ended and closed the channel after a
\* failed second Delta call, with every object it sent received.
C29_EndedAfterDeltaError ==
  /\ lpc = "done"
  /\ outClosed
  /\ deltaCalls = 2
  /\ statsErrors > 0
  /\ emitted # <<>>
  /\ out = <<>>

\* the delta loop has just been left on a failed Delta call or on a page
\* with Reset fetched with a non-empty cursor
StoppedByFailure ==
  lpc = "walk" /\ (page.err \/ (page.reset /\ cursor # ""))

\* C30 as stated: once the delta loop has stopped on a Delta error or an
\* unexpected reset, no object is sent to the output any more.
C30_NothingEmittedAfterFailure ==
  [](StoppedByFailure => [](sending = NoObject))

\* C30 amended: a Delta error or an unexpected reset ends the delta loop, no
\* further Delta call is made and no further entry is processed, but the
\* name tree is walked as after a normal end: the walk starts from the files
\* stored before the failure, each file item it takes whose path lies under
\* the root is sent to the output, and the walk ends only when no item is
\* left.
C30_DeferredEmittedAfterFailure ==
  [][/\ (deltaCalls' # deltaCalls
           /\ (page'.err \/ (page'.reset /\ cursor # ""))) =>
          (lpc' = "walk" /\ nameTree' = nameTree)
     /\ (StoppedByFailure /\ lpc' # lpc) =>
          LET got == GetTreeNode(nameTree, root)
          IN  IF got.ok
                THEN /\ lpc' = "walking"
                     /\ walkTodo' = WalkItems(got.tree, root, got.node)
                ELSE lpc' = "close"
     /\ InWalk => (deltaCalls' = deltaCalls /\ processed' = processed)
     /\ (lpc = "walking" /\ walkTodo' # walkTodo) =>
          \E item \in walkTodo :
            /\ walkTodo' = walkTodo \ {item}
            /\ (item.kind = "file" /\ StripRoot(<<"/">> \o item.path).ok) =>
                 (lpc' = "sendWalk" /\ sending'.info = item.entry)
     /\ (lpc = "walking" /\ lpc' = "close") => walkTodo = {}
     /\ (lpc = "sendWalk" /\ lpc' # lpc) =>
          (lpc' = "walking" /\ emitted' = Append(emitted, sending))]_vars

\* C30 witness: the delta loop has stopped on a failure while the name tree
\* holds a file entry, stored before the failure, that the walk will send.
C30_FailureWithDeferredFile ==
  /\ StoppedByFailure
  /\ LET got == GetTreeNode(nameTree, root)
     IN  /\ got.ok
         /\ \E item \in WalkItems(got.tree, root, got.node) :
               item.kind = "file" /\ StripRoot(<<"/">> \o item.path).ok

====
